---- MODULE Spec2Model ----
(***************************************************************************)
(* A model of tdc (src/tdc.py): the caching client wrapper TodoistClient,  *)
(* the partial-name lookups and the task / project / section commands.     *)
(*                                                                         *)
(* Strings are sequences of one-character strings, so that lower(),        *)
(* strip(), isdigit(), str() and the `in` substring test are computed.     *)
(* Ids are positive integers; None is modelled by NoId (ids) and by the    *)
(* empty sequence (strings, optional lists).  An optional value that may   *)
(* legitimately be an empty list (a cache slot) is a sequence of length    *)
(* 0 (None / key absent) or 1 (the cached list).                           *)
(***************************************************************************)
EXTENDS Integers, Sequences, FiniteSets, TLC

VARIABLES remote, cache, last, pend, steps

vars == <<remote, cache, last, pend, steps>>

(***************************************************************************)
(* Bounds of the model.                                                    *)
(***************************************************************************)
\* ids handed out by the remote service never exceed MaxId
MaxId == 6
\* a session makes at most MaxOps invocations
MaxOps == 2

\* None for an id (pid = None, sid = None, parent_id None)
NoId == 0

(***************************************************************************)
(* Strings.                                                                *)
(***************************************************************************)
None == << >>

Digits == {"0", "1", "2", "3", "4", "5", "6", "7", "8", "9"}

DigitVal(ch) ==
    CASE ch = "0" -> 0
      [] ch = "1" -> 1
      [] ch = "2" -> 2
      [] ch = "3" -> 3
      [] ch = "4" -> 4
      [] ch = "5" -> 5
      [] ch = "6" -> 6
      [] ch = "7" -> 7
      [] ch = "8" -> 8
      [] ch = "9" -> 9

Whitespace == {" "}

\* code points, for Python's string comparison
Ord(ch) ==
    CASE ch = " " -> 32
      [] ch = "-" -> 45
      [] ch \in Digits -> 48 + DigitVal(ch)
      [] ch = "A" -> 65
      [] ch = "B" -> 66
      [] ch = "P" -> 80
      [] ch = "S" -> 83
      [] ch = "a" -> 97
      [] ch = "b" -> 98
      [] ch = "p" -> 112
      [] ch = "s" -> 115
      [] OTHER -> 128512

LowerChar(ch) ==
    CASE ch = "A" -> "a"
      [] ch = "B" -> "b"
      [] ch = "P" -> "p"
      [] ch = "S" -> "s"
      [] OTHER -> ch

\* str.lower()
Lower(s) == [i \in 1..Len(s) |-> LowerChar(s[i])]

\* str.isdigit(): non-empty and every character a digit
IsDigit(s) == Len(s) > 0 /\ \A i \in 1..Len(s) : s[i] \in Digits

\* str.strip(): drop leading and trailing whitespace
Strip(s) ==
    LET keep == {i \in 1..Len(s) : s[i] \notin Whitespace}
    IN  IF keep = {} THEN << >>
        ELSE LET lo == CHOOSE i \in keep : \A j \in keep : i <= j
                 hi == CHOOSE i \in keep : \A j \in keep : j <= i
             IN  SubSeq(s, lo, hi)

\* `sub in s` for strings
Contains(sub, s) ==
    \E i \in 0..(Len(s) - Len(sub)) : SubSeq(s, i + 1, i + Len(sub)) = sub

DigitChar(d) ==
    CASE d = 0 -> "0"
      [] d = 1 -> "1"
      [] d = 2 -> "2"
      [] d = 3 -> "3"
      [] d = 4 -> "4"
      [] d = 5 -> "5"
      [] d = 6 -> "6"
      [] d = 7 -> "7"
      [] d = 8 -> "8"
      [] d = 9 -> "9"

RECURSIVE Str(_)
\* str(n) of a non-negative integer: its decimal digits
Str(n) == IF n < 10 THEN <<DigitChar(n)>> ELSE Str(n \div 10) \o <<DigitChar(n % 10)>>

\* the characters of Unicode property Emoji the model knows: the digits, '#', '*'
\* (all three are in the property) and one pictograph, U+1F600, written "<smile>"
Emoji == Digits \cup {"#", "*", "<smile>"}

RECURSIVE SkipWhitespace(_)
SkipWhitespace(s) ==
    IF s # << >> /\ Head(s) \in Whitespace THEN SkipWhitespace(Tail(s)) ELSE s

RECURSIVE remove_emojis(_)
\* regex.sub(r"\p{Emoji}\s*", "", text) if text else text
remove_emojis(text) ==
    IF text = << >> THEN text
    ELSE IF Head(text) \in Emoji THEN remove_emojis(SkipWhitespace(Tail(text)))
         ELSE <<Head(text)>> \o remove_emojis(Tail(text))

\* Python truthiness of an id (None is falsy) and of a string (None and "" are falsy)
TruthyId(x) == x # NoId

TruthyStr(s) == s # None

(***************************************************************************)
(* Sequence helpers.                                                       *)
(***************************************************************************)
Range0(s) == {s[i] : i \in 1..Len(s)}

\* the least element of a non-empty set of integers
Min(S) == CHOOSE i \in S : \A j \in S : i <= j

\* the element of a one-element set.  The({body : x \in {e}}) is body with x bound to
\* the value of e, computed once
The(S) == CHOOSE x \in S : TRUE

(***************************************************************************)
(* The remote service behind client.api (todoist_api_python.TodoistAPI).   *)
(* remote = [projects, sections, tasks, labels, nextId]: the lists the     *)
(* service would return now, in its own order, and the next id it hands    *)
(* out.                                                                    *)
(***************************************************************************)
Project(id, name) == [id |-> id, name |-> name]

Section(id, name, project_id) == [id |-> id, name |-> name, project_id |-> project_id]

Label(id, name) == [id |-> id, name |-> name]

Task(id, content, project_id, section_id, parent_id, due) ==
    [id |-> id, content |-> content, project_id |-> project_id,
     section_id |-> section_id, parent_id |-> parent_id, priority |-> 1, due |-> due]

\* a remote call as it is logged: the operation and its arguments (NoId / None: absent)
Call(op, id, project_id, section_id, content) ==
    [op |-> op, id |-> id, project_id |-> project_id, section_id |-> section_id,
     content |-> content, priority |-> NoId, due_string |-> None]

\* the same with the optional keyword arguments priority and due_string
CallKw(op, id, project_id, section_id, content, priority, due) ==
    [Call(op, id, project_id, section_id, content) EXCEPT
        !.priority = priority, !.due_string = IF TruthyStr(due) THEN due ELSE None]

\* the due the service makes of a due_string (the date it resolves it to is its own)
DueFrom(due_string) ==
    IF due_string = None THEN None
    ELSE <<[date |-> <<"2", "0", "2", "4", "-", "0", "1", "-", "0", "2">>,
            is_recurring |-> FALSE, string |-> due_string]>>

\* the project the service files a task under when add_task names none
InboxId(r) == IF r.projects = << >> THEN NoId ELSE r.projects[1].id

RECURSIVE Descendants(_, _)
\* the ids of the tasks below the tasks `ids` (their subtasks, transitively), ids included
Descendants(tasks, ids) ==
    LET more == {t.id : t \in {u \in Range0(tasks) : u.parent_id \in ids}} \ ids
    IN  IF more = {} THEN ids ELSE Descendants(tasks, ids \cup more)

\* api.get_projects()
RemoteProjects(r) == r.projects

\* api.get_sections(project_id=p)
RemoteSections(r, p) == SelectSeq(r.sections, LAMBDA s : s.project_id = p)

\* api.get_tasks(project_id=p) and api.get_tasks()
RemoteTasks(r, p) ==
    IF p = NoId THEN r.tasks ELSE SelectSeq(r.tasks, LAMBDA t : t.project_id = p)

\* what a fetch returns
RemoteResult(r, call) ==
    CASE call.op = "get_projects" -> RemoteProjects(r)
      [] call.op = "get_sections" -> RemoteSections(r, call.project_id)
      [] call.op = "get_tasks" -> RemoteTasks(r, call.project_id)
      [] call.op = "get_labels" -> r.labels
      [] call.op \in {"add_task", "add_project", "add_section", "add_label"} -> <<r.nextId>>
      [] OTHER -> << >>

\* the service refuses a request it cannot serve (the call raises)
RemoteRejects(r, call) ==
    CASE call.op = "add_task" ->
           r.nextId > MaxId \/ (InboxId(r) = NoId /\ call.project_id = NoId)
      [] call.op \in {"add_project", "add_section", "add_label"} -> r.nextId > MaxId
      [] call.op = "delete_project" -> call.id = InboxId(r)
      [] OTHER -> FALSE

\* the service's state after a mutation it accepted
RemoteApply(r, call) ==
    CASE call.op = "add_task" ->
           [r EXCEPT !.tasks = Append(@, [Task(r.nextId, call.content,
                                   IF call.project_id = NoId THEN InboxId(r) ELSE call.project_id,
                                   call.section_id, NoId, DueFrom(call.due_string))
                                   EXCEPT !.priority = IF call.priority = NoId THEN 1 ELSE call.priority]),
                     !.nextId = @ + 1]
      [] call.op = "update_task" ->
           [r EXCEPT !.tasks = [i \in 1..Len(@) |->
                IF @[i].id = call.id
                THEN [@[i] EXCEPT
                        !.content = IF call.content # None THEN call.content ELSE @,
                        !.priority = IF call.priority # NoId THEN call.priority ELSE @,
                        !.due = IF call.due_string # None THEN DueFrom(call.due_string) ELSE @]
                ELSE @[i]]]
      [] call.op \in {"close_task", "delete_task"} ->
           [r EXCEPT !.tasks = SelectSeq(@, LAMBDA t : t.id \notin Descendants(r.tasks, {call.id}))]
      [] call.op = "add_project" ->
           [r EXCEPT !.projects = Append(@, Project(r.nextId, call.content)),
                     !.nextId = @ + 1]
      [] call.op = "update_project" ->
           [r EXCEPT !.projects = [i \in 1..Len(@) |->
                IF @[i].id = call.id THEN [@[i] EXCEPT !.name = call.content] ELSE @[i]]]
      [] call.op = "delete_project" ->
           [r EXCEPT !.projects = SelectSeq(@, LAMBDA p : p.id # call.id),
                     !.sections = SelectSeq(@, LAMBDA s : s.project_id # call.id),
                     !.tasks = SelectSeq(@, LAMBDA t : t.project_id # call.id)]
      [] call.op = "add_section" ->
           [r EXCEPT !.sections = Append(@, Section(r.nextId, call.content, call.project_id)),
                     !.nextId = @ + 1]
      [] call.op = "update_section" ->
           [r EXCEPT !.sections = [i \in 1..Len(@) |->
                IF @[i].id = call.id THEN [@[i] EXCEPT !.name = call.content] ELSE @[i]]]
      [] call.op = "delete_section" ->
           [r EXCEPT !.sections = SelectSeq(@, LAMBDA s : s.id # call.id),
                     !.tasks = SelectSeq(@, LAMBDA t : t.section_id # call.id)]
      [] call.op = "add_label" ->
           [r EXCEPT !.labels = Append(@, Label(r.nextId, call.content)),
                     !.nextId = @ + 1]
      [] call.op = "update_label" ->
           [r EXCEPT !.labels = [i \in 1..Len(@) |->
                IF @[i].id = call.id THEN [@[i] EXCEPT !.name = call.content] ELSE @[i]]]
      [] call.op = "delete_label" ->
           [r EXCEPT !.labels = SelectSeq(@, LAMBDA la : la.id # call.id)]
      [] OTHER -> r

(***************************************************************************)
(* An invocation in progress: c = [cache, remote, log, failAt, exc, ret,   *)
(* outcome, pid].  Each log entry is the call and whether it raised; pid   *)
(* is the project id the command resolved its project name to.             *)
(* log lists the remote calls made so far, failAt is the position of the   *)
(* call that raises (0: none does), exc says an exception is propagating,  *)
(* ret is the value the last call returned.                                *)
(***************************************************************************)
Ctx(cache0, remote0, failAt) ==
    [cache |-> cache0, remote |-> remote0, log |-> << >>, failAt |-> failAt,
     exc |-> FALSE, ret |-> << >>, outcome |-> "running", pid |-> NoId]

\* await asyncio.to_thread(client.api.<op>, ...)
to_thread(c, call) ==
    The({ [c EXCEPT !.log = Append(@, [call |-> call, raised |-> raised]),
                    !.exc = raised,
                    !.ret = IF raised THEN << >> ELSE RemoteResult(c.remote, call),
                    !.remote = IF raised THEN @ ELSE RemoteApply(@, call)]
          : raised \in {(Len(c.log) + 1 = c.failAt) \/ RemoteRejects(c.remote, call)} })

(***************************************************************************)
(* TodoistClient: cache = [projects, sections, tasks].  projects is None   *)
(* or <<list>>; sections maps the project ids cached to their lists; tasks *)
(* maps the keys cached (str of a project id, or "all") to their lists.    *)
(***************************************************************************)
ALL == <<"a", "l", "l">>

\* key = project_id if project_id is not None else "all"
TaskKey(project_id) == IF project_id # NoId THEN Str(project_id) ELSE ALL

\* TodoistClient.__init__
NewCache == [projects |-> None, sections |-> << >>, tasks |-> << >>]

\* d with d[k] = v
Put(d, k, v) == [x \in (DOMAIN d) \cup {k} |-> IF x = k THEN v ELSE d[x]]

\* d.pop(k, None)
Pop(d, k) == [x \in (DOMAIN d) \ {k} |-> d[x]]

\* the fetch a get makes on a miss
Fetch(op, project_id) == Call(op, NoId, project_id, NoId, None)

\* the test of a get: is the key cached (lines 68, 73, 81)
Cached(k, op, project_id) ==
    CASE op = "get_projects" -> k.projects # None
      [] op = "get_sections" -> project_id \in DOMAIN k.sections
      [] op = "get_tasks" -> TaskKey(project_id) \in DOMAIN k.tasks

\* what a get returns for a cached key (lines 70, 77, 88)
CachedValue(k, op, project_id) ==
    CASE op = "get_projects" -> k.projects[1]
      [] op = "get_sections" -> k.sections[project_id]
      [] op = "get_tasks" -> k.tasks[TaskKey(project_id)]

\* the assignment a get makes when its fetch has returned (lines 69, 74, 83-87)
Stored(k, op, project_id, value) ==
    CASE op = "get_projects" -> [k EXCEPT !.projects = <<value>>]
      [] op = "get_sections" -> [k EXCEPT !.sections = Put(@, project_id, value)]
      [] op = "get_tasks" -> [k EXCEPT !.tasks = Put(@, TaskKey(project_id), value)]

get_projects(c) ==
    IF c.cache.projects = None
    THEN The({ IF f.exc THEN f ELSE [f EXCEPT !.cache.projects = <<f.ret>>]
               : f \in {to_thread(c, Call("get_projects", NoId, NoId, NoId, None))} })
    ELSE [c EXCEPT !.ret = c.cache.projects[1]]

\* get_sections with the failed fetch leaving an empty list in the slot
get_sections_CacheOnFail(c, project_id) ==
    IF project_id \notin DOMAIN c.cache.sections
    THEN The({ [f EXCEPT !.cache.sections = Put(@, project_id, f.ret)]
               : f \in {to_thread(c, Call("get_sections", NoId, project_id, NoId, None))} })
    ELSE [c EXCEPT !.ret = c.cache.sections[project_id]]

get_sections(c, project_id) ==
    IF project_id \notin DOMAIN c.cache.sections
    THEN The({ IF f.exc THEN f ELSE [f EXCEPT !.cache.sections = Put(@, project_id, f.ret)]
               : f \in {to_thread(c, Call("get_sections", NoId, project_id, NoId, None))} })
    ELSE [c EXCEPT !.ret = c.cache.sections[project_id]]

\* get_tasks without the test of the cache: every call fetches
get_tasks_Refetch(c, project_id) ==
    The({ IF f.exc THEN f ELSE [f EXCEPT !.cache.tasks = Put(@, TaskKey(project_id), f.ret)]
          : f \in {to_thread(c, Call("get_tasks", NoId, project_id, NoId, None))} })

get_tasks(c, project_id) ==
    IF TaskKey(project_id) \notin DOMAIN c.cache.tasks
    THEN The({ IF f.exc THEN f ELSE [f EXCEPT !.cache.tasks = Put(@, TaskKey(project_id), f.ret)]
               : f \in {IF TruthyId(project_id)
                        THEN to_thread(c, Call("get_tasks", NoId, project_id, NoId, None))
                        ELSE to_thread(c, Call("get_tasks", NoId, NoId, NoId, None))} })
    ELSE [c EXCEPT !.ret = c.cache.tasks[TaskKey(project_id)]]

\* invalidate_tasks that forgets the "all" slot when a project is given
invalidate_tasks_KeepAll(k, project_id) ==
    IF TruthyId(project_id) THEN [k EXCEPT !.tasks = Pop(@, Str(project_id))]
    ELSE [k EXCEPT !.tasks = Pop(@, ALL)]

invalidate_tasks(k, project_id) ==
    LET k1 == IF TruthyId(project_id) THEN [k EXCEPT !.tasks = Pop(@, Str(project_id))] ELSE k
    IN  [k1 EXCEPT !.tasks = Pop(@, ALL)]

invalidate_projects(k) == [k EXCEPT !.projects = None]

\* invalidate_sections that forgets the sections of every project
invalidate_sections_All(k, project_id) == [k EXCEPT !.sections = << >>]

invalidate_sections(k, project_id) == [k EXCEPT !.sections = Pop(@, project_id)]

(***************************************************************************)
(* Lookups.                                                                *)
(***************************************************************************)
\* ret: the id found, or NoId for None; exc when the fetch raised
\* the positions of the projects p with str(p.id) == project_input (line 109)
IdMatches(projects, project_input) ==
    {i \in 1..Len(projects) : Str(projects[i].id) = project_input}

\* the name test without lower(): the case of the input has to match
NameMatches_CaseSensitive(items, search) ==
    {i \in 1..Len(items) : Contains(search, items[i].name)}

\* the positions of the items x with search.lower() in x.name.lower() (lines 113, 122)
NameMatches(items, search) ==
    {i \in 1..Len(items) : Contains(Lower(search), Lower(items[i].name))}

\* find_project_id_partial with the name match tried before the id match
find_project_id_partial_NameFirst(c, project_input) ==
    The({ IF g.exc THEN g
          ELSE IF NameMatches(g.ret, project_input) # {}
          THEN [g EXCEPT !.ret = g.ret[Min(NameMatches(g.ret, project_input))].id]
          ELSE IF IsDigit(project_input) /\ IdMatches(g.ret, project_input) # {}
          THEN [g EXCEPT !.ret = g.ret[Min(IdMatches(g.ret, project_input))].id]
          ELSE [g EXCEPT !.ret = NoId]
          : g \in {get_projects(c)} })

find_project_id_partial(c, project_input) ==
    The({ IF g.exc THEN g
          ELSE IF IsDigit(project_input) /\ IdMatches(g.ret, project_input) # {}
          THEN [g EXCEPT !.ret = g.ret[Min(IdMatches(g.ret, project_input))].id]
          ELSE IF NameMatches(g.ret, project_input) # {}
          THEN [g EXCEPT !.ret = g.ret[Min(NameMatches(g.ret, project_input))].id]
          ELSE [g EXCEPT !.ret = NoId]
          : g \in {get_projects(c)} })

find_section_id_partial(c, project_id, section_name_partial) ==
    The({ IF g.exc THEN g
          ELSE IF NameMatches(g.ret, section_name_partial) # {}
          THEN [g EXCEPT !.ret = g.ret[Min(NameMatches(g.ret, section_name_partial))].id]
          ELSE [g EXCEPT !.ret = NoId]
          : g \in {get_sections(c, project_id)} })

(***************************************************************************)
(* How an invocation ends.  "ok": the command did its work; "dup": a       *)
(* create found the entity and skipped; "notfound": the yellow "no         *)
(* matching ..." return; "usererr": a red message and sys.exit(1) before   *)
(* any mutation; "fail": an except branch reported the error and called    *)
(* sys.exit(1); "raise": an exception no handler caught left the command.  *)
(***************************************************************************)
End(c, outcome) == [c EXCEPT !.outcome = outcome]

\* pid = None; if project_name: pid = await find_project_id_partial(...); if not pid: exit
\* ret: pid.  Still "running" when the command goes on.
ResolveProject(c, project_name) ==
    IF TruthyStr(project_name)
    THEN The({ IF f.exc THEN End(f, "raise")
               ELSE IF ~TruthyId(f.ret) THEN End(f, "usererr")
               ELSE [f EXCEPT !.pid = f.ret]
               : f \in {find_project_id_partial(c, project_name)} })
    ELSE [c EXCEPT !.ret = NoId]

\* the first t of tasks whose content contains the input, as the lookups by partial name
\* do
ExactTask_Partial(tasks, content) ==
    LET hits == {i \in 1..Len(tasks) : Contains(Lower(content), Lower(tasks[i].content))}
    IN  IF hits = {} THEN 0 ELSE Min(hits)

\* the first t of tasks with t.content.strip().lower() == content.strip().lower(); 0: none
ExactTask(tasks, content) ==
    LET hits == {i \in 1..Len(tasks) : Lower(Strip(tasks[i].content)) = Lower(Strip(content))}
    IN  IF hits = {} THEN 0 ELSE Min(hits)

\* the same over names (projects, sections)
ExactName(items, name) ==
    LET hits == {i \in 1..Len(items) : Lower(Strip(items[i].name)) = Lower(Strip(name))}
    IN  IF hits = {} THEN 0 ELSE Min(hits)

(***************************************************************************)
(* Task commands.                                                          *)
(***************************************************************************)
\* the section looked up in the first project of the service when no project was given
ResolveSection_InboxSection(p, section_name) ==
    IF TruthyStr(section_name)
    THEN The({ IF f.exc THEN End(f, "raise")
               ELSE IF ~TruthyId(f.ret) THEN End(f, "usererr")
               ELSE f
               : f \in {find_section_id_partial(p, IF TruthyId(p.pid) THEN p.pid
                                                   ELSE InboxId(p.remote), section_name)} })
    ELSE [p EXCEPT !.ret = NoId]

\* lines 320-327 of create_task: sid.  ret: sid; still "running" when the command goes on
ResolveSection(p, section_name) ==
    IF TruthyStr(section_name)
    THEN IF ~TruthyId(p.pid) THEN End(p, "usererr")
         ELSE The({ IF f.exc THEN End(f, "raise")
                    ELSE IF ~TruthyId(f.ret) THEN End(f, "usererr")
                    ELSE f
                    : f \in {find_section_id_partial(p, p.pid, section_name)} })
    ELSE [p EXCEPT !.ret = NoId]

\* lines 328-335 of create_task: is there a task with the same content, emojis aside
Duplicate(tasks, content) ==
    \E i \in 1..Len(tasks) :
        remove_emojis(Lower(Strip(tasks[i].content))) = remove_emojis(Lower(Strip(content)))

\* the reminder inside the outer try only: its exception ends the command as a failure
AddTask_ReminderFatal(d, pid, sid, content, priority, due, reminder) ==
    The({ IF a.exc THEN End(a, "fail")
          ELSE IF TruthyStr(reminder)
          THEN The({ End([m EXCEPT !.exc = FALSE], IF m.exc THEN "fail" ELSE "ok")
                     : m \in {to_thread([a EXCEPT !.cache = invalidate_tasks(@, pid)],
                                        CallKw("add_reminder", a.ret[1], NoId, NoId, None, NoId,
                                               reminder))} })
          ELSE End([a EXCEPT !.cache = invalidate_tasks(@, pid)], "ok")
          : a \in {to_thread(d, CallKw("add_task", NoId, pid, sid, content, priority, due))} })

\* the task added and the reminder set, the task slots left as they are
AddTask_NoInvalidate(d, pid, sid, content, priority, due, reminder) ==
    The({ IF a.exc THEN End(a, "fail")
          ELSE IF TruthyStr(reminder)
          THEN End([to_thread(a, CallKw("add_reminder", a.ret[1], NoId, NoId, None, NoId, reminder))
                    EXCEPT !.exc = FALSE], "ok")
          ELSE End(a, "ok")
          : a \in {to_thread(d, CallKw("add_task", NoId, pid, sid, content, priority, due))} })

\* lines 345-359 of create_task: add the task, invalidate, add the reminder
AddTask(d, pid, sid, content, priority, due, reminder) ==
    The({ IF a.exc THEN End(a, "fail")
          ELSE IF TruthyStr(reminder)
          THEN End([to_thread([a EXCEPT !.cache = invalidate_tasks(@, pid)],
                              CallKw("add_reminder", a.ret[1], NoId, NoId, None, NoId, reminder))
                    EXCEPT !.exc = FALSE], "ok")
          ELSE End([a EXCEPT !.cache = invalidate_tasks(@, pid)], "ok")
          : a \in {to_thread(d, CallKw("add_task", NoId, pid, sid, content, priority, due))} })

create_task(c, content, priority, due, reminder, project_name, section_name, force) ==
    The({ IF s.outcome # "running" THEN s
          ELSE IF force THEN AddTask(s, s.pid, s.ret, content, priority, due, reminder)
          ELSE The({ IF d.exc THEN End(d, "raise")
                     ELSE IF Duplicate(d.ret, content) THEN End(d, "dup")
                     ELSE AddTask(d, s.pid, s.ret, content, priority, due, reminder)
                     : d \in {get_tasks(s, s.pid)} })
          : s \in {The({ IF p.outcome # "running" THEN p ELSE ResolveSection(p, section_name)
                         : p \in {ResolveProject(c, project_name)} })} })

\* update_task with the rule of create_task (lines 320-323) that a section needs a
\* project
update_task_SectionNeedsProject(c, content, new_content, priority, due, reminder, project_name, section_name) ==
    IF TruthyStr(section_name) /\ ~TruthyStr(project_name) THEN End(c, "usererr")
    ELSE
    The({ IF g.outcome # "running" THEN g
          ELSE IF g.exc THEN End(g, "raise")
          ELSE IF ExactTask(g.ret, content) = 0 THEN End(g, "notfound")
          ELSE The({ IF u.exc THEN End(u, "fail")
                     ELSE End([u EXCEPT !.cache = invalidate_tasks(@, g.pid)], "ok")
                     : u \in {to_thread(g, CallKw("update_task",
                                   g.ret[ExactTask(g.ret, content)].id, NoId, NoId,
                                   IF TruthyStr(new_content) THEN new_content ELSE None,
                                   priority, due))} })
          : g \in {The({ IF p.outcome # "running" THEN p ELSE get_tasks(p, p.pid)
                         : p \in {ResolveProject(c, project_name)} })} })

\* update_task with the invalidation in a finally: it runs when the update raised too
update_task_InvalidateAlways(c, content, new_content, priority, due, reminder, project_name, section_name) ==
    The({ IF g.outcome # "running" THEN g
          ELSE IF g.exc THEN End(g, "raise")
          ELSE IF ExactTask(g.ret, content) = 0 THEN End(g, "notfound")
          ELSE The({ End([u EXCEPT !.cache = invalidate_tasks(@, g.pid)],
                         IF u.exc THEN "fail" ELSE "ok")
                     : u \in {to_thread(g, CallKw("update_task",
                                   g.ret[ExactTask(g.ret, content)].id, NoId, NoId,
                                   IF TruthyStr(new_content) THEN new_content ELSE None,
                                   priority, due))} })
          : g \in {The({ IF p.outcome # "running" THEN p ELSE get_tasks(p, p.pid)
                         : p \in {ResolveProject(c, project_name)} })} })

update_task(c, content, new_content, priority, due, reminder, project_name, section_name) ==
    The({ IF g.outcome # "running" THEN g
          ELSE IF g.exc THEN End(g, "raise")
          ELSE IF ExactTask(g.ret, content) = 0 THEN End(g, "notfound")
          ELSE The({ IF u.exc THEN End(u, "fail")
                     ELSE End([u EXCEPT !.cache = invalidate_tasks(@, g.pid)], "ok")
                     : u \in {to_thread(g, CallKw("update_task",
                                   g.ret[ExactTask(g.ret, content)].id, NoId, NoId,
                                   IF TruthyStr(new_content) THEN new_content ELSE None,
                                   priority, due))} })
          : g \in {The({ IF p.outcome # "running" THEN p ELSE get_tasks(p, p.pid)
                         : p \in {ResolveProject(c, project_name)} })} })

\* mark_task_done with the error of close_task swallowed: the loop goes on and ends at
\* the message of line 423
mark_task_done_SwallowsError(c, content, project_name) ==
    The({ IF g.outcome # "running" THEN g
          ELSE IF g.exc THEN End(g, "raise")
          ELSE IF ExactTask(g.ret, content) = 0 THEN End(g, "notfound")
          ELSE The({ IF u.exc THEN End(u, "notfound")
                     ELSE End([u EXCEPT !.cache = invalidate_tasks(@, g.pid)], "ok")
                     : u \in {to_thread(g, Call("close_task",
                                   g.ret[ExactTask(g.ret, content)].id, NoId, NoId, None))} })
          : g \in {The({ IF p.outcome # "running" THEN p ELSE get_tasks(p, p.pid)
                         : p \in {ResolveProject(c, project_name)} })} })

mark_task_done(c, content, project_name) ==
    The({ IF g.outcome # "running" THEN g
          ELSE IF g.exc THEN End(g, "raise")
          ELSE IF ExactTask(g.ret, content) = 0 THEN End(g, "notfound")
          ELSE The({ IF u.exc THEN End(u, "fail")
                     ELSE End([u EXCEPT !.cache = invalidate_tasks(@, g.pid)], "ok")
                     : u \in {to_thread(g, Call("close_task",
                                   g.ret[ExactTask(g.ret, content)].id, NoId, NoId, None))} })
          : g \in {The({ IF p.outcome # "running" THEN p ELSE get_tasks(p, p.pid)
                         : p \in {ResolveProject(c, project_name)} })} })

\* delete_task without the return of line 440: the loop goes on to the next task with
\* the same content and deletes it too
delete_task_AllMatches(c, content, project_name) ==
    The({ IF g.outcome # "running" THEN g
          ELSE IF g.exc THEN End(g, "raise")
          ELSE IF ExactTask(g.ret, content) = 0 THEN End(g, "notfound")
          ELSE The({ IF u.exc THEN End(u, "fail")
                     ELSE IF ExactTask(SubSeq(g.ret, ExactTask(g.ret, content) + 1, Len(g.ret)),
                                       content) = 0
                     THEN End([u EXCEPT !.cache = invalidate_tasks(@, g.pid)], "ok")
                     ELSE The({ IF v.exc THEN End(v, "fail")
                                ELSE End([v EXCEPT !.cache = invalidate_tasks(@, g.pid)], "ok")
                                : v \in {to_thread([u EXCEPT !.cache = invalidate_tasks(@, g.pid)],
                                            Call("delete_task",
                                                 SubSeq(g.ret, ExactTask(g.ret, content) + 1,
                                                        Len(g.ret))[
                                                     ExactTask(SubSeq(g.ret,
                                                         ExactTask(g.ret, content) + 1,
                                                         Len(g.ret)), content)].id,
                                                 NoId, NoId, None))} })
                     : u \in {to_thread(g, Call("delete_task",
                                   g.ret[ExactTask(g.ret, content)].id, NoId, NoId, None))} })
          : g \in {The({ IF p.outcome # "running" THEN p ELSE get_tasks(p, p.pid)
                         : p \in {ResolveProject(c, project_name)} })} })

\* delete_task emptying the task slots also when it found no task
delete_task_InvalidateOnMiss(c, content, project_name) ==
    The({ IF g.outcome # "running" THEN g
          ELSE IF g.exc THEN End(g, "raise")
          ELSE IF ExactTask(g.ret, content) = 0
          THEN End([g EXCEPT !.cache = invalidate_tasks(@, g.pid)], "notfound")
          ELSE The({ IF u.exc THEN End(u, "fail")
                     ELSE End([u EXCEPT !.cache = invalidate_tasks(@, g.pid)], "ok")
                     : u \in {to_thread(g, Call("delete_task",
                                   g.ret[ExactTask(g.ret, content)].id, NoId, NoId, None))} })
          : g \in {The({ IF p.outcome # "running" THEN p ELSE get_tasks(p, p.pid)
                         : p \in {ResolveProject(c, project_name)} })} })

delete_task(c, content, project_name) ==
    The({ IF g.outcome # "running" THEN g
          ELSE IF g.exc THEN End(g, "raise")
          ELSE IF ExactTask(g.ret, content) = 0 THEN End(g, "notfound")
          ELSE The({ IF u.exc THEN End(u, "fail")
                     ELSE End([u EXCEPT !.cache = invalidate_tasks(@, g.pid)], "ok")
                     : u \in {to_thread(g, Call("delete_task",
                                   g.ret[ExactTask(g.ret, content)].id, NoId, NoId, None))} })
          : g \in {The({ IF p.outcome # "running" THEN p ELSE get_tasks(p, p.pid)
                         : p \in {ResolveProject(c, project_name)} })} })

(***************************************************************************)
(* Project commands.                                                       *)
(***************************************************************************)
create_project(c, name) ==
    The({ IF g.exc THEN End(g, "fail")
          ELSE IF ExactName(g.ret, name) # 0 THEN End(g, "dup")
          ELSE The({ IF a.exc THEN End(a, "fail")
                     ELSE End([a EXCEPT !.cache = invalidate_projects(@)], "ok")
                     : a \in {to_thread(g, Call("add_project", NoId, NoId, NoId, name))} })
          : g \in {get_projects(c)} })

update_project(c, name, new_name) ==
    The({ IF g.exc THEN End(g, "raise")
          ELSE IF ExactName(g.ret, name) = 0 THEN End(g, "notfound")
          ELSE The({ IF u.exc THEN End(u, "fail")
                     ELSE End([u EXCEPT !.cache = invalidate_projects(@)], "ok")
                     : u \in {to_thread(g, Call("update_project",
                                   g.ret[ExactName(g.ret, name)].id, NoId, NoId, new_name))} })
          : g \in {get_projects(c)} })

delete_project(c, name_partial) ==
    The({ IF f.exc THEN End(f, "raise")
          ELSE IF ~TruthyId(f.ret) THEN End(f, "notfound")
          ELSE The({ IF u.exc THEN End([u EXCEPT !.pid = f.ret], "fail")
                     ELSE End([u EXCEPT !.cache = invalidate_projects(@), !.pid = f.ret], "ok")
                     : u \in {to_thread(f, Call("delete_project", f.ret, NoId, NoId, None))} })
          : f \in {find_project_id_partial(c, name_partial)} })

(***************************************************************************)
(* Section commands.                                                       *)
(***************************************************************************)
\* pid = await find_project_id_partial(client, project_name); if not pid: exit
RequireProject(c, project_name) ==
    The({ IF f.exc THEN End(f, "raise")
          ELSE IF ~TruthyId(f.ret) THEN End(f, "usererr")
          ELSE [f EXCEPT !.pid = f.ret]
          : f \in {find_project_id_partial(c, project_name)} })

\* the project resolved, then secs = await client.get_sections(pid)
SectionsOf(c, project_name) ==
    The({ IF p.outcome # "running" THEN p ELSE get_sections(p, p.pid)
          : p \in {RequireProject(c, project_name)} })

create_section(c, project_name, section_name) ==
    The({ IF g.outcome # "running" THEN g
          ELSE IF g.exc THEN End(g, "fail")
          ELSE IF ExactName(g.ret, section_name) # 0 THEN End(g, "dup")
          ELSE The({ IF a.exc THEN End(a, "fail")
                     ELSE End([a EXCEPT !.cache = invalidate_sections(@, g.pid)], "ok")
                     : a \in {to_thread(g, Call("add_section", NoId, g.pid, NoId, section_name))} })
          : g \in {SectionsOf(c, project_name)} })

update_section(c, project_name, section_name, new_name) ==
    The({ IF g.outcome # "running" THEN g
          ELSE IF g.exc THEN End(g, "raise")
          ELSE IF ExactName(g.ret, section_name) = 0 THEN End(g, "notfound")
          ELSE The({ IF u.exc THEN End(u, "fail")
                     ELSE End([u EXCEPT !.cache = invalidate_sections(@, g.pid)], "ok")
                     : u \in {to_thread(g, Call("update_section",
                                   g.ret[ExactName(g.ret, section_name)].id, NoId, NoId,
                                   new_name))} })
          : g \in {SectionsOf(c, project_name)} })

delete_section(c, project_name, section_partial) ==
    The({ IF g.outcome # "running" THEN g
          ELSE IF g.exc THEN End(g, "fail")
          ELSE IF NameMatches(g.ret, section_partial) = {} THEN End(g, "notfound")
          ELSE The({ IF u.exc THEN End(u, "fail")
                     ELSE End([u EXCEPT !.cache = invalidate_sections(@, g.pid)], "ok")
                     : u \in {to_thread(g, Call("delete_section",
                                   g.ret[Min(NameMatches(g.ret, section_partial))].id,
                                   NoId, NoId, None))} })
          : g \in {SectionsOf(c, project_name)} })

(***************************************************************************)
(* Label commands: the labels are fetched from the service each time, no   *)
(* cache slot holds them.                                                  *)
(***************************************************************************)
\* labels = await asyncio.to_thread(client.api.get_labels)
get_labels(c) == to_thread(c, Call("get_labels", NoId, NoId, NoId, None))

create_label(c, name) ==
    The({ IF g.exc THEN End(g, "fail")
          ELSE IF ExactName(g.ret, name) # 0 THEN End(g, "dup")
          ELSE The({ IF a.exc THEN End(a, "fail") ELSE End(a, "ok")
                     : a \in {to_thread(g, Call("add_label", NoId, NoId, NoId, name))} })
          : g \in {get_labels(c)} })

update_label(c, name, new_name) ==
    The({ IF g.exc THEN End(g, "fail")
          ELSE IF ExactName(g.ret, name) = 0 THEN End(g, "notfound")
          ELSE The({ IF u.exc THEN End(u, "fail") ELSE End(u, "ok")
                     : u \in {to_thread(g, Call("update_label",
                                   g.ret[ExactName(g.ret, name)].id, NoId, NoId, new_name))} })
          : g \in {get_labels(c)} })

delete_label(c, name_partial) ==
    The({ IF g.exc THEN End(g, "fail")
          ELSE IF NameMatches(g.ret, name_partial) = {} THEN End(g, "notfound")
          ELSE The({ IF u.exc THEN End(u, "fail") ELSE End(u, "ok")
                     : u \in {to_thread(g, Call("delete_label",
                                   g.ret[Min(NameMatches(g.ret, name_partial))].id,
                                   NoId, NoId, None))} })
          : g \in {get_labels(c)} })

(***************************************************************************)
(* Sorting: Python's list.sort(key=...) is stable and compares strings by  *)
(* code point, tuples lexicographically.                                   *)
(***************************************************************************)
\* a < b for strings
StrLt(a, b) ==
    \E k \in 0..Len(a) :
        /\ k <= Len(b)
        /\ SubSeq(a, 1, k) = SubSeq(b, 1, k)
        /\ \/ k = Len(a) /\ k < Len(b)
           \/ k < Len(a) /\ k < Len(b) /\ Ord(a[k + 1]) < Ord(b[k + 1])

\* x < y for tuples of strings of the same length
RECURSIVE KeyLt(_, _)
KeyLt(x, y) ==
    IF x = << >> THEN FALSE
    ELSE IF Head(x) = Head(y) THEN KeyLt(Tail(x), Tail(y))
    ELSE StrLt(Head(x), Head(y))

\* e = <<key, item>> put into the sorted list after every element not greater than it
RECURSIVE InsertSorted(_, _)
InsertSorted(e, sorted) ==
    IF sorted = << >> THEN <<e>>
    ELSE IF KeyLt(e[1], Head(sorted)[1]) THEN <<e>> \o sorted
    ELSE <<Head(sorted)>> \o InsertSorted(e, Tail(sorted))

RECURSIVE SortKeyed(_)
\* the stable sort of a list of <<key, item>> pairs
SortKeyed(pairs) ==
    IF pairs = << >> THEN << >>
    ELSE InsertSorted(pairs[Len(pairs)], SortKeyed(SubSeq(pairs, 1, Len(pairs) - 1)))

Items(pairs) == [i \in 1..Len(pairs) |-> pairs[i][2]]

\* items.sort(key=lambda x: x.name.lower())
SortByName(items) ==
    Items(SortKeyed([i \in 1..Len(items) |-> <<(<<Lower(items[i].name)>>), items[i]>>]))

(***************************************************************************)
(* Output.  What a list command prints: out = [mode, columns, rows]; a row *)
(* maps each column (table) or field (JSON) to its value.  None is JSON's  *)
(* null.                                                                   *)
(***************************************************************************)
\* "[italic dim]N/A[/italic dim]": the two markup tags and the three characters between
NA == <<"[italic dim]", "N", "/", "A", "[/italic dim]">>

maybe_strip_emojis(strip, text) == IF strip THEN remove_emojis(text) ELSE text

Emit(c, mode, columns, rows) ==
    [c EXCEPT !.ret = [mode |-> mode, columns |-> columns, rows |-> rows]]

\* the rows of list_projects and list_sections
NameRows(strip, show_ids, output_json, items) ==
    [i \in 1..Len(items) |->
        IF output_json
        THEN [id |-> items[i].id, name |-> maybe_strip_emojis(strip, items[i].name)]
        ELSE IF show_ids
             THEN [ID |-> Str(items[i].id), Name |-> maybe_strip_emojis(strip, items[i].name)]
             ELSE [Name |-> maybe_strip_emojis(strip, items[i].name)]]

NameColumns(show_ids, output_json) ==
    IF output_json THEN <<"id", "name">>
    ELSE IF show_ids THEN <<"ID", "Name">> ELSE <<"Name">>

\* lines 457-469 and 538-550: print the sorted items
EmitNames(k, strip, show_ids, output_json, items) ==
    End(Emit(k, IF output_json THEN "json" ELSE "table", NameColumns(show_ids, output_json),
             NameRows(strip, show_ids, output_json, items)), "ok")

\* projects is the cached list itself: sort() reorders it in place
list_projects(c, strip, show_ids, output_json) ==
    The({ IF g.exc THEN End(g, "fail")
          ELSE The({ EmitNames([g EXCEPT !.cache.projects = <<projects>>],
                               strip, show_ids, output_json, projects)
                     : projects \in {SortByName(g.ret)} })
          : g \in {get_projects(c)} })

\* secs is the cached list itself: sort() reorders it in place
list_sections(c, strip, show_ids, project_name, output_json) ==
    The({ IF g.outcome # "running" THEN g
          ELSE IF g.exc THEN End(g, "fail")
          ELSE The({ EmitNames([g EXCEPT !.cache.sections = Put(@, g.pid, secs)],
                               strip, show_ids, output_json, secs)
                     : secs \in {SortByName(g.ret)} })
          : g \in {SectionsOf(c, project_name)} })

(***************************************************************************)
(* list_tasks.                                                             *)
(***************************************************************************)
RECURSIVE Num(_)
\* int() of a string of digits
Num(s) == IF s = << >> THEN 0 ELSE 10 * Num(SubSeq(s, 1, Len(s) - 1)) + DigitVal(s[Len(s)])

\* datetime.strptime(s, "%Y-%m-%d").date() of a string "YYYY-MM-DD": <<year, month, day>>
ParseDate(s) == <<Num(SubSeq(s, 1, 4)), Num(SubSeq(s, 6, 7)), Num(SubSeq(s, 9, 10))>>

\* d < e for dates
DateLt(d, e) ==
    \/ d[1] < e[1]
    \/ d[1] = e[1] /\ d[2] < e[2]
    \/ d[1] = e[1] /\ d[2] = e[2] /\ d[3] < e[3]

\* t.due and getattr(t.due, "date", None)
HasDueDate(t) == t.due # None /\ t.due[1].date # None

\* {x.id: x for x in items}: the ids in first-insertion order, each with its last item
DictById(items) ==
    LET firsts == {i \in 1..Len(items) : \A j \in 1..(i - 1) : items[j].id # items[i].id}
        nth(k) == CHOOSE i \in firsts : Cardinality({j \in firsts : j <= i}) = k
        lastOf(i) == CHOOSE j \in 1..Len(items) :
                        /\ items[j].id = items[i].id
                        /\ \A m \in (j + 1)..Len(items) : items[m].id # items[i].id
    IN  [k \in 1..Cardinality(firsts) |-> items[lastOf(nth(k))]]

\* id in {x.id: x for x in items}
InDict(items, id) == \E i \in 1..Len(items) : items[i].id = id

\* {x.id: x for x in items}[id]
Lookup(items, id) ==
    items[CHOOSE i \in 1..Len(items) :
            items[i].id = id /\ \A m \in (i + 1)..Len(items) : items[m].id # id]

RECURSIVE FetchSections(_, _, _)
\* for upid in unique_pids: secs = await client.get_sections(upid); ...  (ascending ids)
\* ret: the sections fetched, in fetch order
FetchSections(c, pids, acc) ==
    IF pids = {} THEN [c EXCEPT !.ret = acc]
    ELSE The({ IF g.exc THEN g ELSE FetchSections(g, pids \ {Min(pids)}, acc \o g.ret)
               : g \in {get_sections(c, Min(pids))} })

\* the projects of all the tasks, with or without a section id
UniquePids_AllTasks(tasks) == {tasks[i].project_id : i \in 1..Len(tasks)}

\* {t.project_id for t in tasks if t.section_id}
UniquePids(tasks) ==
    {tasks[i].project_id : i \in {j \in 1..Len(tasks) : TruthyId(tasks[j].section_id)}}

\* lines 164-173: the section found in project pid, the tasks cut down to it
SectionFilter(f1, tasks, section_name) ==
    The({ IF f2.exc THEN End(f2, "raise")
          ELSE IF ~TruthyId(f2.ret) THEN End(f2, "usererr")
          ELSE The({ IF f3.exc THEN End(f3, "raise")
                     ELSE [f3 EXCEPT !.ret =
                              [tasks |-> SelectSeq(tasks, LAMBDA t : t.section_id = f2.ret),
                               secs |-> f3.ret, show |-> TRUE]]
                     : f3 \in {get_sections(f2, f1.ret)} })
          : f2 \in {find_section_id_partial(f1, f1.ret, section_name)} })

\* lines 154-181; ret = [tasks, secs, show]: the tasks kept, the sections whose ids make
\* section_mapping, and show_section_col
SectionStage(c, tasks, project_name, section_name) ==
    IF TruthyStr(section_name)
    THEN IF ~TruthyStr(project_name) THEN End(c, "usererr")
         ELSE The({ IF f1.exc THEN End(f1, "raise")
                    ELSE IF ~TruthyId(f1.ret) THEN End(f1, "usererr")
                    ELSE SectionFilter(f1, tasks, section_name)
                    : f1 \in {find_project_id_partial(c, project_name)} })
    ELSE IF UniquePids(tasks) = {}
         THEN [c EXCEPT !.ret = [tasks |-> tasks, secs |-> << >>, show |-> FALSE]]
         ELSE The({ IF f.exc THEN End(f, "raise")
                    ELSE [f EXCEPT !.ret = [tasks |-> tasks, secs |-> f.ret, show |-> TRUE]]
                    : f \in {FetchSections(c, UniquePids(tasks), << >>)} })

\* the filters as a conjunction: a task is kept when it passes every filter requested
TemporalStage_Intersect(tasks, filter_today, filter_overdue, filter_recurring, today_date) ==
    SelectSeq(tasks, LAMBDA t :
        /\ filter_today => (HasDueDate(t) /\ ParseDate(t.due[1].date) = today_date)
        /\ filter_overdue => (HasDueDate(t) /\ DateLt(ParseDate(t.due[1].date), today_date))
        /\ filter_recurring => (t.due # None /\ t.due[1].is_recurring))

\* the recurring filter that lets a task without a due pass
TemporalStage_RecurringKeepsNoDue(tasks, filter_today, filter_overdue, filter_recurring, today_date) ==
    LET dueToday == SelectSeq(tasks, LAMBDA t :
                       HasDueDate(t) /\ ParseDate(t.due[1].date) = today_date)
        overdue == SelectSeq(tasks, LAMBDA t :
                       HasDueDate(t) /\ DateLt(ParseDate(t.due[1].date), today_date))
        union_tasks == (IF filter_today THEN dueToday ELSE << >>)
                          \o (IF filter_overdue THEN overdue ELSE << >>)
        t1 == IF filter_today \/ filter_overdue THEN DictById(union_tasks) ELSE tasks
    IN  IF filter_recurring
        THEN SelectSeq(t1, LAMBDA t : t.due = None \/ t.due[1].is_recurring)
        ELSE t1

\* lines 183-211: the today / overdue union, de-duplicated by id, then recurring
TemporalStage(tasks, filter_today, filter_overdue, filter_recurring, today_date) ==
    LET dueToday == SelectSeq(tasks, LAMBDA t :
                       HasDueDate(t) /\ ParseDate(t.due[1].date) = today_date)
        overdue == SelectSeq(tasks, LAMBDA t :
                       HasDueDate(t) /\ DateLt(ParseDate(t.due[1].date), today_date))
        union_tasks == (IF filter_today THEN dueToday ELSE << >>)
                          \o (IF filter_overdue THEN overdue ELSE << >>)
        t1 == IF filter_today \/ filter_overdue THEN DictById(union_tasks) ELSE tasks
    IN  IF filter_recurring
        THEN SelectSeq(t1, LAMBDA t : t.due # None /\ t.due[1].is_recurring)
        ELSE t1

\* the key without lower(): names and contents compared as they are written
SortKey_CaseSensitive(t, projects, secs) ==
    <<IF InDict(projects, t.project_id) THEN Lookup(projects, t.project_id).name ELSE << >>,
      IF InDict(secs, t.section_id) THEN Lookup(secs, t.section_id).name ELSE << >>,
      t.content>>

\* the key of tasks.sort (lines 217-231)
SortKey(t, projects, secs) ==
    <<IF InDict(projects, t.project_id) THEN Lower(Lookup(projects, t.project_id).name) ELSE << >>,
      IF InDict(secs, t.section_id) THEN Lower(Lookup(secs, t.section_id).name) ELSE << >>,
      Lower(t.content)>>

SortTasks(tasks, projects, secs) ==
    Items(SortKeyed([i \in 1..Len(tasks) |-> <<SortKey(tasks[i], projects, secs), tasks[i]>>]))

\* the entry with the id of the project in place of the name of a project that is not
\* in the project list
JsonEntry_IdOnMiss(task, strip, show_subtasks, show_section_col, projects, secs, tasks) ==
    LET p_name == IF InDict(projects, task.project_id)
                  THEN Lookup(projects, task.project_id).name ELSE Str(task.project_id)
        s_name == IF show_section_col /\ InDict(secs, task.section_id)
                  THEN Lookup(secs, task.section_id).name ELSE None
        parent_str == IF show_subtasks /\ InDict(tasks, task.parent_id)
                      THEN Lookup(tasks, task.parent_id).content ELSE None
    IN  [id |-> task.id,
         content |-> maybe_strip_emojis(strip, task.content),
         project |-> IF TruthyStr(p_name) THEN maybe_strip_emojis(strip, p_name) ELSE None,
         priority |-> task.priority,
         due |-> IF task.due # None THEN maybe_strip_emojis(strip, task.due[1].string) ELSE None,
         section |-> IF TruthyStr(s_name) THEN maybe_strip_emojis(strip, s_name) ELSE None,
         parent |-> IF TruthyStr(parent_str) THEN maybe_strip_emojis(strip, parent_str) ELSE None]

\* lines 233-260: one entry of the JSON document
JsonEntry(task, strip, show_subtasks, show_section_col, projects, secs, tasks) ==
    LET p_name == IF InDict(projects, task.project_id)
                  THEN Lookup(projects, task.project_id).name ELSE None
        s_name == IF show_section_col /\ InDict(secs, task.section_id)
                  THEN Lookup(secs, task.section_id).name ELSE None
        parent_str == IF show_subtasks /\ InDict(tasks, task.parent_id)
                      THEN Lookup(tasks, task.parent_id).content ELSE None
    IN  [id |-> task.id,
         content |-> maybe_strip_emojis(strip, task.content),
         project |-> IF TruthyStr(p_name) THEN maybe_strip_emojis(strip, p_name) ELSE None,
         priority |-> task.priority,
         due |-> IF task.due # None THEN maybe_strip_emojis(strip, task.due[1].string) ELSE None,
         section |-> IF TruthyStr(s_name) THEN maybe_strip_emojis(strip, s_name) ELSE None,
         parent |-> IF TruthyStr(parent_str) THEN maybe_strip_emojis(strip, parent_str) ELSE None]

\* lines 264-274: the columns of the table
TableColumns(show_ids, show_subtasks, show_section_col) ==
    (IF show_ids THEN <<"ID">> ELSE << >>) \o <<"Content">>
        \o (IF show_subtasks THEN <<"Parent Task">> ELSE << >>) \o <<"Project">>
        \o (IF show_section_col THEN <<"Section">> ELSE << >>) \o <<"Priority", "Due">>

\* lines 276-298: one row of the table, a cell per column
TableRow(task, strip, show_ids, show_subtasks, show_section_col, projects, secs, tasks) ==
    LET cell(col) ==
            CASE col = "ID" -> Str(task.id)
              [] col = "Content" -> maybe_strip_emojis(strip, task.content)
              [] col = "Parent Task" ->
                    IF TruthyId(task.parent_id) /\ InDict(tasks, task.parent_id)
                    THEN maybe_strip_emojis(strip, Lookup(tasks, task.parent_id).content)
                    ELSE NA
              [] col = "Project" ->
                    IF InDict(projects, task.project_id)
                    THEN maybe_strip_emojis(strip, Lookup(projects, task.project_id).name)
                    ELSE NA
              [] col = "Section" ->
                    IF InDict(secs, task.section_id)
                    THEN maybe_strip_emojis(strip, Lookup(secs, task.section_id).name)
                    ELSE NA
              [] col = "Priority" -> Str(task.priority)
              [] col = "Due" ->
                    maybe_strip_emojis(strip, IF task.due # None THEN task.due[1].string ELSE NA)
    IN  [col \in Range0(TableColumns(show_ids, show_subtasks, show_section_col)) |-> cell(col)]

JsonFields == <<"id", "content", "project", "priority", "due", "section", "parent">>

\* lines 233-300: print the sorted tasks
EmitTasks(k, tasks, strip, show_ids, show_subtasks, show_section_col, output_json, projects, secs) ==
    IF output_json
    THEN End(Emit(k, "json", JsonFields,
                  [i \in 1..Len(tasks) |->
                      JsonEntry(tasks[i], strip, show_subtasks, show_section_col,
                                projects, secs, tasks)]), "ok")
    ELSE End(Emit(k, "table", TableColumns(show_ids, show_subtasks, show_section_col),
                  [i \in 1..Len(tasks) |->
                      TableRow(tasks[i], strip, show_ids, show_subtasks,
                               show_section_col, projects, secs, tasks)]), "ok")

\* tasks is still the cached list itself when no step of list_tasks rebound it: sort()
\* then reorders the cache slot in place
SortsInPlace(show_subtasks, section_name, filter_today, filter_overdue, filter_recurring) ==
    /\ show_subtasks /\ ~TruthyStr(section_name)
    /\ ~(filter_today \/ filter_overdue) /\ ~filter_recurring

\* the step that keeps the subtasks whatever show_subtasks is
TopLevel_KeepsSubtasks(show_subtasks, tasks) == tasks

\* lines 151-152: tasks = [t for t in tasks if t.parent_id is None]
TopLevel(show_subtasks, tasks) ==
    IF ~show_subtasks THEN SelectSeq(tasks, LAMBDA t : t.parent_id = NoId) ELSE tasks

list_tasks(c, strip, show_ids, show_subtasks, project_name, section_name, output_json, filter_today, filter_overdue, filter_recurring, today_date) ==
    The({ IF g.outcome # "running" THEN g
          ELSE IF g.exc THEN End(g, "raise")
          ELSE The({ IF s.outcome # "running" THEN s
                     ELSE The({ IF gp.exc THEN End(gp, "raise")
                                ELSE The({ EmitTasks(IF SortsInPlace(show_subtasks, section_name,
                                                         filter_today, filter_overdue, filter_recurring)
                                                     THEN [gp EXCEPT !.cache.tasks =
                                                              Put(@, TaskKey(g.pid), tasks)]
                                                     ELSE gp,
                                                     tasks, strip, show_ids, show_subtasks,
                                                     s.ret.show, output_json, gp.ret, s.ret.secs)
                                           : tasks \in {SortTasks(TemporalStage(s.ret.tasks,
                                                            filter_today, filter_overdue,
                                                            filter_recurring, today_date),
                                                            gp.ret, s.ret.secs)} })
                                : gp \in {get_projects(s)} })
                     : s \in {SectionStage(g, TopLevel(show_subtasks, g.ret),
                                           project_name, section_name)} })
          : g \in {The({ IF p.outcome # "running" THEN p ELSE get_tasks(p, p.pid)
                         : p \in {ResolveProject(c, project_name)} })} })

(***************************************************************************)
(* The state machine.  remote: the service; cache: the TodoistClient;      *)
(* last: the invocation that just ended (operation, arguments, outcome,    *)
(* remote calls made, resolved project, value returned or printed);        *)
(* pend: the get calls suspended in their remote fetch (interleaved        *)
(* callers only); steps: the invocations made so far.                      *)
(***************************************************************************)
\* the strings the inputs are drawn from
sA == <<"a">>

sAsp == <<"A", " ">>

sB == <<"b">>

sAb == <<"A", "b">>

sS == <<"s">>

s2 == <<"2">>

s0 == <<"0">>

Contents == {sA, sB}

\* no project; "b": in "Ab" and in "b", the first wins; "2": the id of the second; "0": none
ProjectInputs == {None, sB, s2, s0}

SectionInputs == {None, sS}

\* date.today() of the run
Today == <<2021, 1, 1>>

NoLast == [op |-> "none", args |-> << >>, outcome |-> "none", log |-> << >>, pid |-> NoId, ret |-> << >>]

Idle == << >>

\* the service as a session finds it: two projects, a section in the first, two tasks
InitRemote ==
    [projects |-> <<Project(1, sAb), Project(2, sB)>>,
     sections |-> <<Section(3, sS, 1)>>,
     tasks |-> <<Task(4, sAsp, 1, 3, NoId, None), Task(5, sA, 2, NoId, NoId, None)>>,
     labels |-> << >>, nextId |-> 6]

Init ==
    /\ remote = InitRemote
    /\ cache = NewCache
    /\ last = NoLast
    /\ pend = Idle
    /\ steps = 0

\* an invocation that ran from c0 = Ctx(cache, remote, failAt) to r; a failAt beyond the
\* calls it made is the same run as failAt = 0
Do(op, args, r, ret) ==
    /\ steps < MaxOps
    /\ r.failAt <= Len(r.log)
    /\ steps' = steps + 1
    /\ remote' = r.remote
    /\ cache' = r.cache
    /\ last' = [op |-> op, args |-> args, outcome |-> r.outcome, log |-> r.log,
                pid |-> r.pid, ret |-> ret]
    /\ UNCHANGED pend

\* a direct call of a cache method: returns ("ok") or lets the fetch error through
Returned(c) == End(c, IF c.exc THEN "raise" ELSE "ok")

GetProjects(failAt) ==
    /\ steps < MaxOps
    /\ \E r \in {Returned(get_projects(Ctx(cache, remote, failAt)))} :
           Do("get_projects", [project_id |-> NoId], r, r.ret)

GetSections(failAt, project_id) ==
    /\ steps < MaxOps
    /\ \E r \in {Returned(get_sections(Ctx(cache, remote, failAt), project_id))} :
           Do("get_sections", [project_id |-> project_id], r, r.ret)

GetTasks(failAt, project_id) ==
    /\ steps < MaxOps
    /\ \E r \in {Returned(get_tasks(Ctx(cache, remote, failAt), project_id))} :
           Do("get_tasks", [project_id |-> project_id], r, r.ret)

InvalidateTasks(project_id) ==
    LET c == Ctx(cache, remote, 0)
    IN  Do("invalidate_tasks", [project_id |-> project_id],
           End([c EXCEPT !.cache = invalidate_tasks(@, project_id)], "ok"), << >>)

InvalidateProjects ==
    LET c == Ctx(cache, remote, 0)
    IN  Do("invalidate_projects", [project_id |-> NoId],
           End([c EXCEPT !.cache = invalidate_projects(@)], "ok"), << >>)

InvalidateSections(project_id) ==
    LET c == Ctx(cache, remote, 0)
    IN  Do("invalidate_sections", [project_id |-> project_id],
           End([c EXCEPT !.cache = invalidate_sections(@, project_id)], "ok"), << >>)

ListTasks(failAt, show_subtasks, project_name, section_name) ==
    /\ steps < MaxOps
    /\ \E r \in {list_tasks(Ctx(cache, remote, failAt), FALSE, FALSE, show_subtasks,
                             project_name, section_name, FALSE, FALSE, FALSE, FALSE,
                             Today)} :
           Do("list_tasks",
              [show_subtasks |-> show_subtasks, project_name |-> project_name,
               section_name |-> section_name],
              r, IF r.outcome = "ok" THEN r.ret ELSE << >>)

CreateTask(failAt, content, reminder, project_name, section_name, force) ==
    Do("create_task",
       [content |-> content, reminder |-> reminder, project_name |-> project_name,
        section_name |-> section_name, force |-> force],
       create_task(Ctx(cache, remote, failAt), content, NoId, None, reminder,
                   project_name, section_name, force), << >>)

UpdateTask(failAt, content, new_content, project_name) ==
    Do("update_task",
       [content |-> content, new_content |-> new_content, project_name |-> project_name],
       update_task(Ctx(cache, remote, failAt), content, new_content, NoId, None, None,
                   project_name, None), << >>)

MarkTaskDone(failAt, content, project_name) ==
    Do("mark_task_done", [content |-> content, project_name |-> project_name],
       mark_task_done(Ctx(cache, remote, failAt), content, project_name), << >>)

DeleteTask(failAt, content, project_name) ==
    Do("delete_task", [content |-> content, project_name |-> project_name],
       delete_task(Ctx(cache, remote, failAt), content, project_name), << >>)

ListProjects(failAt) ==
    /\ steps < MaxOps
    /\ \E r \in {list_projects(Ctx(cache, remote, failAt), FALSE, FALSE, FALSE)} :
           Do("list_projects", << >>, r, IF r.outcome = "ok" THEN r.ret ELSE << >>)

CreateProject(failAt, name) ==
    Do("create_project", [name |-> name],
       create_project(Ctx(cache, remote, failAt), name), << >>)

UpdateProject(failAt, name, new_name) ==
    Do("update_project", [name |-> name, new_name |-> new_name],
       update_project(Ctx(cache, remote, failAt), name, new_name), << >>)

DeleteProject(failAt, name_partial) ==
    Do("delete_project", [name_partial |-> name_partial],
       delete_project(Ctx(cache, remote, failAt), name_partial), << >>)

ListSections(failAt, project_name) ==
    /\ steps < MaxOps
    /\ \E r \in {list_sections(Ctx(cache, remote, failAt), FALSE, FALSE, project_name, FALSE)} :
           Do("list_sections", [project_name |-> project_name], r,
              IF r.outcome = "ok" THEN r.ret ELSE << >>)

CreateSection(failAt, project_name, section_name) ==
    Do("create_section", [project_name |-> project_name, section_name |-> section_name],
       create_section(Ctx(cache, remote, failAt), project_name, section_name), << >>)

UpdateSection(failAt, project_name, section_name, new_name) ==
    Do("update_section",
       [project_name |-> project_name, section_name |-> section_name, new_name |-> new_name],
       update_section(Ctx(cache, remote, failAt), project_name, section_name, new_name),
       << >>)

DeleteSection(failAt, project_name, section_partial) ==
    Do("delete_section", [project_name |-> project_name, section_partial |-> section_partial],
       delete_section(Ctx(cache, remote, failAt), project_name, section_partial), << >>)

\* failAt ranges over the positions at which a remote call of the invocation can raise
\* (0: none raises), up to the number of remote calls the operation can make

CreateLabel(failAt, name) ==
    Do("create_label", [name |-> name],
       create_label(Ctx(cache, remote, failAt), name), << >>)

UpdateLabel(failAt, name, new_name) ==
    Do("update_label", [name |-> name, new_name |-> new_name],
       update_label(Ctx(cache, remote, failAt), name, new_name), << >>)

DeleteLabel(failAt, name_partial) ==
    Do("delete_label", [name_partial |-> name_partial],
       delete_label(Ctx(cache, remote, failAt), name_partial), << >>)

Next ==
    \/ \E failAt \in 0..1 : GetProjects(failAt)
    \/ \E failAt \in 0..1, p \in 1..2 : GetSections(failAt, p)
    \/ \E failAt \in 0..1, p \in 0..2 : GetTasks(failAt, p)
    \/ \E p \in 0..2 : InvalidateTasks(p)
    \/ InvalidateProjects
    \/ \E p \in 1..2 : InvalidateSections(p)
    \/ \E failAt \in 0..4, show_subtasks \in BOOLEAN,
          project_name \in ProjectInputs, section_name \in SectionInputs :
            ListTasks(failAt, show_subtasks, project_name, section_name)
    \/ \E failAt \in 0..5, content \in Contents, reminder \in {None, sA},
          project_name \in ProjectInputs, section_name \in SectionInputs, force \in BOOLEAN :
            CreateTask(failAt, content, reminder, project_name, section_name, force)
    \/ \E failAt \in 0..3, content \in Contents, new_content \in {None, sB},
          project_name \in ProjectInputs :
            UpdateTask(failAt, content, new_content, project_name)
    \/ \E failAt \in 0..3, content \in Contents, project_name \in ProjectInputs :
            MarkTaskDone(failAt, content, project_name)
    \/ \E failAt \in 0..3, content \in Contents, project_name \in ProjectInputs :
            DeleteTask(failAt, content, project_name)
    \/ \E failAt \in 0..1 : ListProjects(failAt)
    \/ \E failAt \in 0..2, name \in {sB, sA} : CreateProject(failAt, name)
    \/ \E failAt \in 0..2, name \in {sB, sA} : UpdateProject(failAt, name, sA)
    \/ \E failAt \in 0..2, name \in {sB, s2, s0} : DeleteProject(failAt, name)
    \/ \E failAt \in 0..2, project_name \in {sB, s2, s0} :
            ListSections(failAt, project_name)
    \/ \E failAt \in 0..3, project_name \in {sB, s2, s0}, section_name \in {sS, sA} :
            CreateSection(failAt, project_name, section_name)
    \/ \E failAt \in 0..3, project_name \in {sB, s2, s0}, section_name \in {sS, sA} :
            UpdateSection(failAt, project_name, section_name, sA)
    \/ \E failAt \in 0..3, project_name \in {sB, s2, s0}, section_name \in {sS, sA} :
            DeleteSection(failAt, project_name, section_name)

Spec == Init /\ [][Next]_vars

(***************************************************************************)
(* Interleaved callers of the cache (SpecConc).  Each get is a coroutine:  *)
(* it tests its key, and on a miss is suspended in                         *)
(* `await asyncio.to_thread(...)` until the fetch returns, when it stores  *)
(* the result.  pend maps each caller to the fetch it is suspended in.     *)
(***************************************************************************)
Callers == {"c1", "c2"}

NoCall == Call("none", NoId, NoId, NoId, None)

InitConc ==
    /\ remote = InitRemote
    /\ cache = NewCache
    /\ last = NoLast
    /\ pend = [w \in Callers |-> NoCall]
    /\ steps = 0

\* a get up to its await: the test of the key, the return on a hit, the fetch begun on a miss
GetBegin(w, op, project_id) ==
    /\ steps < MaxOps
    /\ pend[w] = NoCall
    /\ steps' = steps + 1
    /\ IF Cached(cache, op, project_id)
       THEN /\ last' = [op |-> op, args |-> [project_id |-> project_id], outcome |-> "ok",
                        log |-> << >>, pid |-> NoId,
                        ret |-> CachedValue(cache, op, project_id)]
            /\ pend' = pend
       ELSE /\ pend' = [pend EXCEPT ![w] = Fetch(op, project_id)]
            /\ last' = last
    /\ UNCHANGED <<remote, cache>>

\* a get from its await on: the fetch returned, the result is stored and returned
GetFinish(w) ==
    /\ pend[w] # NoCall
    /\ ~RemoteRejects(remote, pend[w])
    /\ cache' = Stored(cache, pend[w].op, pend[w].project_id, RemoteResult(remote, pend[w]))
    /\ last' = [op |-> pend[w].op, args |-> [project_id |-> pend[w].project_id],
                outcome |-> "ok", log |-> <<[call |-> pend[w], raised |-> FALSE]>>,
                pid |-> NoId, ret |-> RemoteResult(remote, pend[w])]
    /\ pend' = [pend EXCEPT ![w] = NoCall]
    /\ UNCHANGED <<remote, steps>>

\* a get from its await on: the fetch raised, the error leaves the get
GetRaise(w) ==
    /\ pend[w] # NoCall
    /\ last' = [op |-> pend[w].op, args |-> [project_id |-> pend[w].project_id],
                outcome |-> "raise", log |-> <<[call |-> pend[w], raised |-> TRUE]>>,
                pid |-> NoId, ret |-> << >>]
    /\ pend' = [pend EXCEPT ![w] = NoCall]
    /\ UNCHANGED <<remote, cache, steps>>

NextConc ==
    \/ \E w \in Callers : GetBegin(w, "get_projects", NoId)
    \/ \E w \in Callers, p \in 1..2 : GetBegin(w, "get_sections", p)
    \/ \E w \in Callers, p \in 0..2 : GetBegin(w, "get_tasks", p)
    \/ \E w \in Callers : GetFinish(w)
    \/ \E w \in Callers : GetRaise(w)

SpecConc == InitConc /\ [][NextConc]_vars

(***************************************************************************)
(* The lookups over the projects and sections a service may hold           *)
(* (SpecResolve).                                                          *)
(***************************************************************************)
sP10 == <<"P", "1", "0">>

sa2 == <<"a", "2">>

sUpB == <<"B">>

s10 == <<"1", "0">>

sUpS2 == <<"S", "2">>

\* the projects of a service: at most MaxProjects, their ids distinct
MaxProjects == 2

ResolveProjectIds == {2, 10}

ResolveProjectNames == {sUpB, sa2, sP10}

RECURSIVE SeqsUpTo(_, _)
\* the sequences over S of length at most n
SeqsUpTo(S, n) ==
    IF n = 0 THEN {<< >>}
    ELSE SeqsUpTo(S, n - 1)
            \cup {Append(q, x) : q \in {r \in SeqsUpTo(S, n - 1) : Len(r) = n - 1}, x \in S}

DistinctIds(items) == \A i, j \in 1..Len(items) : items[i].id = items[j].id => i = j

ResolveProjects ==
    {q \in SeqsUpTo({Project(i, n) : i \in ResolveProjectIds, n \in ResolveProjectNames},
                    MaxProjects) : DistinctIds(q)}

MaxSections == 2

ResolveSections ==
    {q \in SeqsUpTo({Section(i, n, p) : i \in {3, 4}, n \in {sS, sUpS2}, p \in ResolveProjectIds},
                    MaxSections) : DistinctIds(q) /\ (q # << >> => q[1].id = 3)}

InitResolve ==
    /\ remote \in {[projects |-> ps, sections |-> ss, tasks |-> << >>, labels |-> << >>,
                    nextId |-> 11] :
                      ps \in ResolveProjects, ss \in ResolveSections}
    /\ cache = NewCache
    /\ last = NoLast
    /\ pend = Idle
    /\ steps = 0

FindProject(failAt, project_input) ==
    /\ steps < MaxOps
    /\ \E r \in {Returned(find_project_id_partial(Ctx(cache, remote, failAt), project_input))} :
           Do("find_project_id_partial", [project_input |-> project_input], r, r.ret)

FindSection(failAt, project_id, section_name_partial) ==
    /\ steps < MaxOps
    /\ \E r \in {Returned(find_section_id_partial(Ctx(cache, remote, failAt), project_id,
                                                  section_name_partial))} :
           Do("find_section_id_partial",
              [project_id |-> project_id, section_name_partial |-> section_name_partial],
              r, r.ret)

NextResolve ==
    \/ \E failAt \in 0..1, project_input \in {s2, s10, sB, s0} :
            FindProject(failAt, project_input)
    \/ \E failAt \in 0..1, project_id \in ResolveProjectIds, partial \in {sS, s2} :
            FindSection(failAt, project_id, partial)

SpecResolve == InitResolve /\ [][NextResolve]_vars

(***************************************************************************)
(* list_tasks over the tasks a service may hold (SpecList).                *)
(***************************************************************************)
\* the due dates around Today
dToday == <<"2", "0", "2", "1", "-", "0", "1", "-", "0", "1">>

dYesterday == <<"2", "0", "2", "0", "-", "1", "2", "-", "3", "1">>

dTomorrow == <<"2", "0", "2", "1", "-", "0", "1", "-", "0", "2">>

Due(date, is_recurring) == <<[date |-> date, is_recurring |-> is_recurring, string |-> date]>>

\* project "B" before project "a" in the service's order; two sections in "B"
ListProjectsInit == <<Project(1, sUpB), Project(2, sA)>>

ListSectionsInit == <<Section(3, <<"S">>, 1), Section(4, sA, 1)>>

\* what a task may be apart from its id: content, project, section, due
TaskKind(content, project_id, section_id, due) ==
    [content |-> content, project_id |-> project_id, section_id |-> section_id, due |-> due]

\* tasks that differ in their due only
DueKinds ==
    {TaskKind(sA, 1, NoId, due) :
        due \in {None, Due(dToday, FALSE), Due(dYesterday, FALSE), Due(dToday, TRUE),
                 Due(dTomorrow, FALSE)}}

\* tasks that differ in their place and content only
PlaceKinds ==
    {TaskKind(content, 2, NoId, None) : content \in {sA, sUpB}}
        \cup {TaskKind(sA, 1, sec, None) : sec \in {NoId, 3, 4}}

\* the tasks of a service: at most MaxTasks, with the ids that follow those of the
\* projects and the sections, in its order
MaxTasks == 3

Numbered(kinds) ==
    [i \in 1..Len(kinds) |->
        Task(Len(ListProjectsInit) + Len(ListSectionsInit) + i, kinds[i].content,
             kinds[i].project_id, kinds[i].section_id, NoId, kinds[i].due)]

\* A: due today, B: due yesterday, C: due today and recurring, D: no due date
ExampleTasks ==
    <<Task(5, sA, 1, NoId, NoId, Due(dToday, FALSE)),
      Task(6, sA, 1, NoId, NoId, Due(dYesterday, FALSE)),
      Task(7, sA, 1, NoId, NoId, Due(dToday, TRUE)),
      Task(8, sA, 1, NoId, NoId, None)>>

ListTaskLists ==
    {ExampleTasks} \cup {Numbered(q) : q \in SeqsUpTo(DueKinds, MaxTasks)}
                   \cup {Numbered(q) : q \in SeqsUpTo(PlaceKinds, MaxTasks)}

InitList ==
    /\ remote \in {[projects |-> ListProjectsInit, sections |-> ListSectionsInit,
                    tasks |-> ts, labels |-> << >>,
                    nextId |-> Len(ListProjectsInit) + Len(ListSectionsInit) + Len(ts) + 1] :
                      ts \in ListTaskLists}
    /\ cache = NewCache
    /\ last = NoLast
    /\ pend = Idle
    /\ steps = 0

ListFiltered(output_json, filter_today, filter_overdue, filter_recurring) ==
    /\ steps < MaxOps
    /\ \E r \in {list_tasks(Ctx(cache, remote, 0), FALSE, TRUE, TRUE, None, None, output_json,
                            filter_today, filter_overdue, filter_recurring, Today)} :
           Do("list_tasks",
              [show_subtasks |-> TRUE, project_name |-> None, section_name |-> None,
               output_json |-> output_json, filter_today |-> filter_today,
               filter_overdue |-> filter_overdue, filter_recurring |-> filter_recurring],
              r, IF r.outcome = "ok" THEN r.ret ELSE << >>)

NextList ==
    \E output_json, filter_today, filter_overdue, filter_recurring \in BOOLEAN :
        ListFiltered(output_json, filter_today, filter_overdue, filter_recurring)

SpecList == InitList /\ [][NextList]_vars

(***************************************************************************)
(* list_tasks in both output modes over tasks whose project, section or    *)
(* parent the lookups may miss (SpecRender).                               *)
(***************************************************************************)
sSmileA == <<"<smile>", "a">>

s1 == <<"1">>

\* what a task may be apart from its id.  Project 9 and section 9 are not among those the
\* service lists (archived); parent 5 is the first task of the list, parent 9 a task the
\* service no longer lists (completed)
RenderKinds ==
    {[content |-> sA, project_id |-> p, section_id |-> NoId, parent_id |-> NoId, due |-> None] :
        p \in {1, 9}}
      \cup {[content |-> sUpB, project_id |-> 1, section_id |-> sec, parent_id |-> NoId,
             due |-> Due(dToday, FALSE)] : sec \in {3, 9}}
      \cup {[content |-> sSmileA, project_id |-> 2, section_id |-> NoId, parent_id |-> q,
             due |-> None] : q \in {5, 9}}

MaxRender == 2

\* the tasks of a service: at most MaxRender, none its own parent
RenderTaskLists ==
    {ts \in {[i \in 1..Len(q) |->
                 Task(Len(ListProjectsInit) + Len(ListSectionsInit) + i, q[i].content,
                      q[i].project_id, q[i].section_id, q[i].parent_id, q[i].due)] :
              q \in SeqsUpTo(RenderKinds, MaxRender)} :
        \A i \in 1..Len(ts) : ts[i].parent_id # ts[i].id}

InitRender ==
    /\ remote \in {[projects |-> ListProjectsInit, sections |-> ListSectionsInit,
                    tasks |-> ts, labels |-> << >>,
                    nextId |-> Len(ListProjectsInit) + Len(ListSectionsInit) + Len(ts) + 1] :
                      ts \in RenderTaskLists}
    /\ cache = NewCache
    /\ last = NoLast
    /\ pend = Idle
    /\ steps = 0

\* tdc ls --ids [--subtasks] [--project P [--section S]] [--json], with or without
\* --strip-emojis
ListRendered(strip, show_subtasks, project_name, section_name, output_json) ==
    /\ steps < MaxOps
    /\ \E r \in {list_tasks(Ctx(cache, remote, 0), strip, TRUE, show_subtasks, project_name,
                            section_name, output_json, FALSE, FALSE, FALSE, Today)} :
           Do("list_tasks",
              [strip |-> strip, show_subtasks |-> show_subtasks, project_name |-> project_name,
               section_name |-> section_name, output_json |-> output_json,
               filter_today |-> FALSE, filter_overdue |-> FALSE, filter_recurring |-> FALSE],
              r, IF r.outcome = "ok" THEN r.ret ELSE << >>)

NextRender ==
    \E strip, show_subtasks, output_json \in BOOLEAN :
        \E scope \in {<<None, None>>, <<s1, sS>>} :
            ListRendered(strip, show_subtasks, scope[1], scope[2], output_json)

SpecRender == InitRender /\ [][NextRender]_vars

(***************************************************************************)
(* list_tasks with its subtask, project, section and temporal filters over *)
(* tasks with subtasks and sections in two projects (SpecScope).           *)
(***************************************************************************)
\* a section in each of the two projects
ScopeSectionsInit == <<Section(3, sS, 1), Section(4, sA, 2)>>

\* what a task may be apart from its id: a recurring task due today in section 3 of
\* project 1; a task in section 4 of project 2; a task of project 1 with no section and
\* no due; a subtask of task 5 in section 3, due today; a subtask of task 9, which the
\* service no longer lists (completed)
ScopeKinds ==
    {[content |-> sA, project_id |-> 1, section_id |-> 3, parent_id |-> NoId,
      due |-> Due(dToday, TRUE)],
     [content |-> sA, project_id |-> 2, section_id |-> 4, parent_id |-> NoId, due |-> None],
     [content |-> sUpB, project_id |-> 1, section_id |-> NoId, parent_id |-> NoId,
      due |-> None],
     [content |-> sB, project_id |-> 1, section_id |-> 3, parent_id |-> 5,
      due |-> Due(dToday, FALSE)],
     [content |-> sB, project_id |-> 1, section_id |-> NoId, parent_id |-> 9, due |-> None]}

MaxScope == 2

\* the tasks of a service: at most MaxScope, none its own parent
ScopeTaskLists ==
    {ts \in {[i \in 1..Len(q) |->
                 Task(Len(ListProjectsInit) + Len(ScopeSectionsInit) + i, q[i].content,
                      q[i].project_id, q[i].section_id, q[i].parent_id, q[i].due)] :
              q \in SeqsUpTo(ScopeKinds, MaxScope)} :
        \A i \in 1..Len(ts) : ts[i].parent_id # ts[i].id}

InitScope ==
    /\ remote \in {[projects |-> ListProjectsInit, sections |-> ScopeSectionsInit,
                    tasks |-> ts, labels |-> << >>,
                    nextId |-> Len(ListProjectsInit) + Len(ScopeSectionsInit) + Len(ts) + 1] :
                      ts \in ScopeTaskLists}
    /\ cache = NewCache
    /\ last = NoLast
    /\ pend = Idle
    /\ steps = 0

\* tdc ls --ids [--subtasks] [--project P [--section S]] [--json] [--today] [--recurring]
ListScoped(show_subtasks, project_name, section_name, output_json, filter_today, filter_recurring) ==
    /\ steps < MaxOps
    /\ \E r \in {list_tasks(Ctx(cache, remote, 0), FALSE, TRUE, show_subtasks, project_name,
                            section_name, output_json, filter_today, FALSE, filter_recurring,
                            Today)} :
           Do("list_tasks",
              [strip |-> FALSE, show_subtasks |-> show_subtasks, project_name |-> project_name,
               section_name |-> section_name, output_json |-> output_json,
               filter_today |-> filter_today, filter_overdue |-> FALSE,
               filter_recurring |-> filter_recurring],
              r, IF r.outcome = "ok" THEN r.ret ELSE << >>)

\* no filter; project "b" (project 1, "B"); project "b" and section "s" (section 3)
NextScope ==
    \E show_subtasks, output_json, filter_today, filter_recurring \in BOOLEAN :
        \E scope \in {<<None, None>>, <<sB, None>>, <<sB, sS>>} :
            ListScoped(show_subtasks, scope[1], scope[2], output_json, filter_today,
                       filter_recurring)

SpecScope == InitScope /\ [][NextScope]_vars

(***************************************************************************)
(* The invalidations over every cache the gets can have filled             *)
(* (SpecInval).                                                            *)
(***************************************************************************)
\* the caches a session can hold over InitRemote: the projects slot filled or not, the
\* sections slot of any of the projects, the task slot of any of the projects and "all"
FilledCaches ==
    {[projects |-> pr,
      sections |-> [p \in S |-> RemoteSections(InitRemote, p)],
      tasks |-> [k \in {TaskKey(p) : p \in T} |->
                    RemoteTasks(InitRemote, CHOOSE p \in T : TaskKey(p) = k)]] :
        pr \in {None, <<RemoteProjects(InitRemote)>>}, S \in SUBSET (1..2),
        T \in SUBSET (0..2)}

InitInval ==
    /\ remote = InitRemote
    /\ cache \in FilledCaches
    /\ last = NoLast
    /\ pend = Idle
    /\ steps = 0

NextInval ==
    \/ \E p \in 0..2 : InvalidateTasks(p)
    \/ InvalidateProjects
    \/ \E p \in 1..2 : InvalidateSections(p)

SpecInval == InitInval /\ [][NextInval]_vars

(***************************************************************************)
(* A command as a coroutine (SpecRun): it runs up to its next              *)
(* `await asyncio.to_thread(...)`, is suspended while the remote call is   *)
(* in flight, and goes on when the call has returned or raised.  pend      *)
(* holds the invocation in progress: the command, its arguments, the       *)
(* service as the invocation found it, the number of remote calls that     *)
(* have returned and the call in flight.  The calls a command makes up to  *)
(* the first that raises are those of the run in which none raises.        *)
(***************************************************************************)
\* the dispatch of lines 1021-1045 for `task create` and `task done`, from cache k and
\* service r, the remote call at position failAt raising
Invoke(op, a, k, r, failAt) ==
    IF op = "create_task"
    THEN create_task(Ctx(k, r, failAt), a.content, NoId, None, a.reminder, a.project_name,
                     a.section_name, a.force)
    ELSE mark_task_done(Ctx(k, r, failAt), a.content, a.project_name)

\* the invocation ended as run r
Ended(q, r) ==
    /\ remote' = r.remote
    /\ cache' = r.cache
    /\ last' = [op |-> q.op, args |-> q.args, outcome |-> r.outcome, log |-> r.log,
                pid |-> r.pid, ret |-> << >>]
    /\ pend' = Idle

\* the command that is taken as ended as soon as its first remote call is in flight
CommandBegins_NoAwait(op, a) ==
    /\ steps < MaxOps
    /\ pend = Idle
    /\ steps' = steps + 1
    /\ \E r \in {Invoke(op, a, cache, remote, 0)} :
          IF r.log = << >>
          THEN Ended([op |-> op, args |-> a], r)
          ELSE /\ pend' = <<[op |-> op, args |-> a, remote0 |-> remote, done |-> 0,
                             call |-> r.log[1].call]>>
               /\ last' = [op |-> op, args |-> a, outcome |-> "ok", log |-> << >>,
                           pid |-> NoId, ret |-> << >>]
               /\ UNCHANGED <<remote, cache>>

\* a command from its start to its first await, or to its end when it awaits no remote
\* call
CommandBegins(op, a) ==
    /\ steps < MaxOps
    /\ pend = Idle
    /\ steps' = steps + 1
    /\ \E r \in {Invoke(op, a, cache, remote, 0)} :
          IF r.log = << >>
          THEN Ended([op |-> op, args |-> a], r)
          ELSE /\ pend' = <<[op |-> op, args |-> a, remote0 |-> remote, done |-> 0,
                             call |-> r.log[1].call]>>
               /\ last' = [op |-> op, args |-> a, outcome |-> "running", log |-> << >>,
                           pid |-> NoId, ret |-> << >>]
               /\ UNCHANGED <<remote, cache>>

\* the call in flight returns: the command goes on to its next await, or to its end
CallReturns ==
    /\ pend # Idle
    /\ \E r \in {Invoke(pend[1].op, pend[1].args, cache, pend[1].remote0, 0)} :
          /\ ~r.log[pend[1].done + 1].raised
          /\ IF pend[1].done + 1 = Len(r.log)
             THEN Ended(pend[1], r)
             ELSE /\ remote' = RemoteApply(remote, pend[1].call)
                  /\ pend' = <<[pend[1] EXCEPT !.done = @ + 1,
                                               !.call = r.log[pend[1].done + 2].call]>>
                  /\ UNCHANGED <<cache, last>>
    /\ UNCHANGED steps

\* the call in flight raises: the command goes on from its except clause, or the error
\* leaves it
CallRaises ==
    /\ pend # Idle
    /\ \E r \in {Invoke(pend[1].op, pend[1].args, cache, pend[1].remote0,
                        pend[1].done + 1)} :
          Ended(pend[1], r)
    /\ UNCHANGED steps

RunArgs ==
    [content : {sA, sB}, reminder : {None, sA}, project_name : {None, sB, s0},
     section_name : {None, sS}, force : BOOLEAN]

InitRun == Init

NextRun ==
    \/ \E a \in RunArgs : CommandBegins("create_task", a)
    \/ \E a \in {x \in RunArgs : x.reminder = None /\ x.section_name = None /\ ~x.force} :
          CommandBegins("mark_task_done", a)
    \/ CallReturns
    \/ CallRaises

\* every remote call eventually returns or raises
SpecRun == InitRun /\ [][NextRun]_vars /\ WF_vars(CallReturns \/ CallRaises)

(***************************************************************************)
(* The create commands over names that are duplicates, near duplicates or  *)
(* new (SpecCreate).                                                       *)
(***************************************************************************)
sa1 == <<"a", "1">>

sSpUpA1 == <<" ", "A", "1">>

sUpBsp == <<"B", " ">>

sUpA == <<"A">>

sUpSsp == <<"S", " ">>

sR == <<"r">>

\* "b": a new task; "a2": differs from the task "a1" in its digit; " A1": the task "a1"
\* but for case and surrounding whitespace
CreateContents == {sB, sa2, sSpUpA1}

\* no project; project "Ab" (the first that contains "b"); its section "s"; project 2
CreateScopes == {<<None, None>>, <<sB, None>>, <<sB, sS>>, <<s2, None>>}

\* the service as a session finds it: two projects, a section and a task in the first
InitCreate ==
    /\ remote = [projects |-> <<Project(1, sAb), Project(2, sB)>>,
                 sections |-> <<Section(3, sS, 1)>>,
                 tasks |-> <<Task(4, sa1, 1, 3, NoId, None)>>,
                 labels |-> << >>, nextId |-> 5]
    /\ cache = NewCache
    /\ last = NoLast
    /\ pend = Idle
    /\ steps = 0

NextCreate ==
    \/ \E failAt \in 0..5, content \in CreateContents, reminder \in {None, sR},
          scope \in CreateScopes, force \in BOOLEAN :
            CreateTask(failAt, content, reminder, scope[1], scope[2], force)
    \/ \E failAt \in 0..2, name \in {sB, sUpBsp, sUpA} : CreateProject(failAt, name)
    \/ \E failAt \in 0..3, section_name \in {sS, sUpSsp, sB} :
            CreateSection(failAt, sB, section_name)
    \/ \E failAt \in 0..2, name \in {sB, sUpBsp, sUpA} : CreateLabel(failAt, name)

SpecCreate == InitCreate /\ [][NextCreate]_vars

(***************************************************************************)
(* The update, done and delete commands over names of which one contains   *)
(* the input and a later one equals it (SpecTarget).                       *)
(***************************************************************************)
sP == <<"p">>

s3 == <<"3">>

sBs == <<"b", "s">>

\* "b": equals the second name and is in the first; "B ": equals the second name but
\* for case and whitespace; "p": no task, section or label
TargetInputs == {sB, sUpBsp, sP}

\* the inbox "p"; in project "Ab" the sections "bs", "s" and the tasks "Ab", "b"; the
\* project "b"; the labels "Ab", "b"
InitTarget ==
    /\ remote = [projects |-> <<Project(1, sP), Project(2, sAb), Project(3, sB)>>,
                 sections |-> <<Section(4, sBs, 2), Section(5, sS, 2)>>,
                 tasks |-> <<Task(6, sAb, 2, NoId, NoId, None), Task(7, sB, 2, NoId, NoId, None)>>,
                 labels |-> <<Label(8, sAb), Label(9, sB)>>, nextId |-> 10]
    /\ cache = NewCache
    /\ last = NoLast
    /\ pend = Idle
    /\ steps = 0

NextTarget ==
    \/ \E failAt \in 0..3, content \in TargetInputs, project_name \in {None, sUpA} :
            UpdateTask(failAt, content, sP, project_name)
    \/ \E failAt \in 0..3, content \in TargetInputs, project_name \in {None, sUpA} :
            MarkTaskDone(failAt, content, project_name)
    \/ \E failAt \in 0..3, content \in TargetInputs, project_name \in {None, sUpA} :
            DeleteTask(failAt, content, project_name)
    \/ \E failAt \in 0..2, name \in {sB, sUpBsp, sS} : UpdateProject(failAt, name, sS)
    \/ \E failAt \in 0..2, name \in {sB, sUpBsp, s3, sS} : DeleteProject(failAt, name)
    \/ \E failAt \in 0..3, section_name \in {sS, sUpSsp, sP} :
            UpdateSection(failAt, sUpA, section_name, sP)
    \/ \E failAt \in 0..3, section_name \in {sS, sUpSsp, sP} :
            DeleteSection(failAt, sUpA, section_name)
    \/ \E failAt \in 0..2, name \in TargetInputs : UpdateLabel(failAt, name, sP)
    \/ \E failAt \in 0..2, name \in TargetInputs : DeleteLabel(failAt, name)

SpecTarget == InitTarget /\ [][NextTarget]_vars

(***************************************************************************)
(* SpecPair: update_task run twice from the same cache and service, with   *)
(* a section_name and a reminder and with neither.  The first run is the   *)
(* one committed; pend holds what the second run made of the same state.   *)
(* Two runs that both equal the run with neither equal each other.         *)
(***************************************************************************)
UpdateTaskPair(failAt, content, new_content, due, project_name, section_name, reminder) ==
    /\ steps < MaxOps
    /\ \E r \in {update_task(Ctx(cache, remote, failAt), content, new_content, NoId, due,
                             reminder, project_name, section_name)},
          r2 \in {update_task(Ctx(cache, remote, failAt), content, new_content, NoId, due,
                              None, project_name, None)} :
           /\ r.failAt <= Len(r.log)
           /\ steps' = steps + 1
           /\ remote' = r.remote
           /\ cache' = r.cache
           /\ last' = [op |-> "update_task",
                       args |-> [content |-> content, new_content |-> new_content,
                                 due |-> due, project_name |-> project_name,
                                 section_name |-> section_name, reminder |-> reminder],
                       outcome |-> r.outcome, log |-> r.log, pid |-> r.pid, ret |-> << >>]
           /\ pend' = <<[section_name |-> None, reminder |-> None,
                         outcome |-> r2.outcome, log |-> r2.log, cache |-> r2.cache,
                         remote |-> r2.remote]>>

\* the tasks of InitTarget; sections "s" (of project "Ab"), "p" (of no project)
NextPair ==
    \E failAt \in 0..3, content \in TargetInputs, new_content \in {None, sP},
       due \in {None, sR}, project_name \in {None, sUpA},
       section_name \in {None, sS, sP}, reminder \in {None, sR} :
        UpdateTaskPair(failAt, content, new_content, due, project_name,
                       section_name, reminder)

SpecPair == InitTarget /\ [][NextPair]_vars

(***************************************************************************)
(* Claims about the cache and the mutating commands (Spec).                *)
(***************************************************************************)
GetOps == {"get_projects", "get_sections", "get_tasks"}

TaskMutators == {"create_task", "update_task", "mark_task_done", "delete_task"}

Mutators ==
    TaskMutators \cup {"create_project", "update_project", "delete_project",
                       "create_section", "update_section", "delete_section"}

\* the remote operations that are the primary mutation of a command
MutationOps ==
    {"add_task", "update_task", "close_task", "delete_task", "add_project",
     "update_project", "delete_project", "add_section", "update_section", "delete_section"}

\* the last remote call of the invocation raised and was its mutation
MutationRaised(l) ==
    /\ l.log # << >>
    /\ l.log[Len(l.log)].raised
    /\ l.log[Len(l.log)].call.op \in MutationOps

RECURSIVE AfterFetches(_, _, _)
\* the cache k once the fetches of log that returned have been stored (the service, r,
\* did not change meanwhile)
AfterFetches(k, r, log) ==
    IF log = << >> THEN k
    ELSE LET e == Head(log)
         IN  AfterFetches(IF e.call.op \in GetOps /\ ~e.raised
                          THEN Stored(k, e.call.op, e.call.project_id, RemoteResult(r, e.call))
                          ELSE k,
                          r, Tail(log))

\* C1: a get of a cached key, with no invalidation of it in between, makes no remote
\* call and returns the cached sequence, leaving the cache as it is; a get of an
\* uncached key whose fetch returns makes exactly one remote call, the fetch of that
\* key, returns what it fetched and caches it: so a key is fetched once and every call
\* returns the same sequence.
C1_FetchedOncePerKey ==
    [][(last'.op \in GetOps /\ last'.outcome = "ok") =>
         LET op == last'.op
             p == last'.args.project_id
         IN  IF Cached(cache, op, p)
             THEN /\ last'.log = << >>
                  /\ last'.ret = CachedValue(cache, op, p)
                  /\ cache' = cache
             ELSE /\ Len(last'.log) = 1
                  /\ last'.log[1] = [call |-> Fetch(op, p), raised |-> FALSE]
                  /\ last'.ret = RemoteResult(remote, Fetch(op, p))
                  /\ cache' = Stored(cache, op, p, last'.ret)
                  /\ Cached(cache', op, p)]_vars

\* a second get_tasks of a key, answered from the cache
C1_Witness ==
    /\ last.op = "get_tasks" /\ last.outcome = "ok" /\ last.log = << >>
    /\ steps = 2
    /\ last.ret # << >>

\* C2: after a task mutation that succeeded with a resolved project P, the task slots P
\* and "all" are both empty, and with no project the slot "all" is; the next get_tasks
\* of P or of "all" then makes a new remote fetch.
C2_MutationEmptiesSlots ==
    /\ [](last.op \in TaskMutators /\ last.outcome = "ok" =>
            /\ ALL \notin DOMAIN cache.tasks
            /\ TruthyId(last.pid) => Str(last.pid) \notin DOMAIN cache.tasks)
    /\ [][(/\ last.op \in TaskMutators /\ last.outcome = "ok"
           /\ last'.op = "get_tasks" /\ last'.args.project_id \in {NoId, last.pid}) =>
              /\ Len(last'.log) = 1
              /\ last'.log[1].call = Fetch("get_tasks", last'.args.project_id)]_vars

\* a task of the project was deleted after the project's tasks had been cached
C2_Witness ==
    /\ last.op = "delete_task" /\ last.outcome = "ok" /\ last.pid = 1
    /\ last.log = <<[call |-> Call("delete_task", 4, NoId, NoId, None), raised |-> FALSE]>>

\* C3: after a successful task mutation every populated task slot holds what the
\* service would now return for its scope.
C3_NoStaleTaskSlot ==
    (last.op \in TaskMutators /\ last.outcome = "ok") =>
        \A p \in 0..MaxId :
            TaskKey(p) \in DOMAIN cache.tasks =>
                cache.tasks[TaskKey(p)] = RemoteTasks(remote, p)

\* C4: when the remote mutation of a mutating command raises, the cache is what it was
\* before that call: the cache the command started with plus what its own fetches
\* stored; no slot was invalidated.
C4_FailedMutationKeepsCache ==
    [][(last'.op \in Mutators /\ last'.outcome = "fail" /\ MutationRaised(last')) =>
          /\ cache' = AfterFetches(cache, remote, last'.log)
          /\ remote' = remote
          /\ \A p \in 0..MaxId :
                /\ TaskKey(p) \in DOMAIN cache.tasks => TaskKey(p) \in DOMAIN cache'.tasks
                /\ p \in DOMAIN cache.sections => p \in DOMAIN cache'.sections
          /\ cache.projects # None => cache'.projects # None]_vars

\* update_task failed at its remote call with task slots cached
C4_Witness ==
    /\ last.op = "update_task" /\ last.outcome = "fail" /\ MutationRaised(last)
    /\ DOMAIN cache.tasks # {}
    /\ steps = 2

\* C5: when the fetch of a get raises, the caller gets the error, the call made exactly
\* one fetch attempt, the cache is unchanged (the key stays uncached), and the next get
\* of the same key fetches again.
C5_FailedFetchCachesNothing ==
    /\ [][(last'.op \in GetOps /\ last'.outcome = "raise") =>
            /\ Len(last'.log) = 1
            /\ last'.log[1] = [call |-> Fetch(last'.op, last'.args.project_id), raised |-> TRUE]
            /\ cache' = cache
            /\ ~Cached(cache', last'.op, last'.args.project_id)]_vars
    /\ [][(/\ last.op \in GetOps /\ last.outcome = "raise"
           /\ last'.op = last.op /\ last'.args = last.args) =>
              /\ Len(last'.log) = 1
              /\ last'.log[1].call = Fetch(last'.op, last'.args.project_id)]_vars

\* a get_sections whose fetch raised, retried after a get that had failed too
C5_Witness ==
    /\ last.op = "get_sections" /\ last.outcome = "raise"
    /\ steps = 2
    /\ cache = NewCache

(***************************************************************************)
(* Claims about interleaved gets (SpecConc).                               *)
(***************************************************************************)
\* C6: while gets of the same uncached key are interleaved, at most one remote fetch
\* of that key is in flight: no two callers are suspended in the same fetch.
C6_OneFetchInFlight ==
    \A a, b \in Callers : (a # b /\ pend[a] # NoCall) => pend[a] # pend[b]

(***************************************************************************)
(* Claims about the lookups (SpecResolve).                                 *)
(***************************************************************************)
\* the list the lookup scanned: what the cache returned for its key
Scanned ==
    IF last.op = "find_project_id_partial" THEN cache.projects[1]
    ELSE cache.sections[last.args.project_id]

\* the name of item i contains the input, ignoring case
NameHit(items, i, input) == Contains(Lower(input), Lower(items[i].name))

\* the id of the first item whose name contains the input ignoring case; NoId: none does
FirstNameHit(items, input) ==
    IF \E i \in 1..Len(items) : NameHit(items, i, input)
    THEN items[Min({i \in 1..Len(items) : NameHit(items, i, input)})].id
    ELSE NoId

\* some project has the input as its id string
IdHit(items, input) == \E i \in 1..Len(items) : Str(items[i].id) = input

\* C7: find_project_id_partial with an input that is the id string of a project returns
\* that project's id, whatever the names of the projects before it; when no project has
\* that id string, or the input is not all digits, it returns what the substring match
\* on the names gives.
C7_IdMatchFirst ==
    (last.op = "find_project_id_partial" /\ last.outcome = "ok") =>
        /\ \A i \in 1..Len(Scanned) :
              (IsDigit(last.args.project_input) /\ Str(Scanned[i].id) = last.args.project_input)
                  => last.ret = Scanned[i].id
        /\ (~IsDigit(last.args.project_input) \/ ~IdHit(Scanned, last.args.project_input))
              => last.ret = FirstNameHit(Scanned, last.args.project_input)

\* input "2" found the project with id 2 although the project before it is named "a2"
C7_Witness ==
    /\ last.op = "find_project_id_partial" /\ last.outcome = "ok"
    /\ last.args.project_input = s2
    /\ Len(remote.projects) = 2
    /\ remote.projects[1].name = sa2 /\ remote.projects[1].id = 10
    /\ remote.projects[2].id = 2
    /\ last.ret = 2

\* C8: when the lookup falls back to names (always, for sections) it returns the id of
\* the first entity, in the order of the cached list, whose name contains the input
\* ignoring case, and NoId when there is none; the list a section lookup scans holds
\* exactly the sections of the given project, in the service's order; a lookup raises
\* only when its fetch raised.
C8_FirstSubstringMatch ==
    /\ (last.op = "find_section_id_partial" /\ last.outcome = "ok") =>
          /\ last.ret = FirstNameHit(Scanned, last.args.section_name_partial)
          /\ Scanned = SelectSeq(remote.sections,
                                 LAMBDA x : x.project_id = last.args.project_id)
          /\ last.ret # NoId =>
                \E i \in 1..Len(remote.sections) :
                    /\ remote.sections[i].id = last.ret
                    /\ remote.sections[i].project_id = last.args.project_id
    /\ (/\ last.op = "find_project_id_partial" /\ last.outcome = "ok"
        /\ ~(IsDigit(last.args.project_input) /\ IdHit(Scanned, last.args.project_input))) =>
          /\ last.ret = FirstNameHit(Scanned, last.args.project_input)
          /\ Scanned = remote.projects
    /\ (last.op \in {"find_project_id_partial", "find_section_id_partial"}
            /\ last.outcome = "raise") =>
          /\ last.log # << >>
          /\ last.log[Len(last.log)].raised

\* input "s" found section "S2" of project 10, after section "s" of project 2
C8_Witness ==
    /\ last.op = "find_section_id_partial" /\ last.outcome = "ok"
    /\ last.args.project_id = 10 /\ last.args.section_name_partial = sS
    /\ remote.sections = <<Section(3, sS, 2), Section(4, sUpS2, 10)>>
    /\ last.ret = 4

(***************************************************************************)
(* Claims about list_tasks (SpecList).                                     *)
(***************************************************************************)
\* the ids of the rows printed, in order
RowIds(out) ==
    [i \in 1..Len(out.rows) |->
        IF out.mode = "json" THEN out.rows[i].id ELSE Num(out.rows[i].ID)]

Listed == last.op = "list_tasks" /\ last.outcome = "ok"

\* the task is due on the current date or before it
DueByToday(t) ==
    /\ t.due # None
    /\ t.due[1].date # None
    /\ \/ ParseDate(t.due[1].date) = Today
       \/ DateLt(ParseDate(t.due[1].date), Today)

\* C9: list_tasks with today and overdue prints exactly the tasks due on the current
\* date or before it, each id once, and with recurring as well only those of them whose
\* due is recurring; for the tasks A (5, today), B (6, yesterday), C (7, today,
\* recurring), D (8, no due) that is {5, 6, 7} and {7}.
C9_TodayOverdueUnion ==
    (Listed /\ last.args.filter_today /\ last.args.filter_overdue) =>
        /\ Range0(RowIds(last.ret)) =
              {t.id : t \in {u \in Range0(remote.tasks) :
                                /\ DueByToday(u)
                                /\ last.args.filter_recurring => u.due[1].is_recurring}}
        /\ Cardinality(Range0(RowIds(last.ret))) = Len(last.ret.rows)
        /\ remote.tasks = ExampleTasks =>
              Range0(RowIds(last.ret)) = IF last.args.filter_recurring THEN {7} ELSE {5, 6, 7}

\* the example, listed with today, overdue and recurring: only C is printed
C9_Witness ==
    /\ Listed /\ last.args.filter_today /\ last.args.filter_overdue
    /\ last.args.filter_recurring
    /\ remote.tasks = ExampleTasks
    /\ RowIds(last.ret) = <<7>>

\* the key a row is sorted by, from the service's data
RowKey(id) ==
    <<IF InDict(remote.projects, Lookup(remote.tasks, id).project_id)
      THEN Lower(Lookup(remote.projects, Lookup(remote.tasks, id).project_id).name)
      ELSE << >>,
      IF InDict(remote.sections, Lookup(remote.tasks, id).section_id)
      THEN Lower(Lookup(remote.sections, Lookup(remote.tasks, id).section_id).name)
      ELSE << >>,
      Lower(Lookup(remote.tasks, id).content)>>

\* the position of the task in the list a get_tasks() of this cache returns
FetchedPos(k, id) ==
    Min({i \in 1..Len(IF Cached(k, "get_tasks", NoId)
                       THEN CachedValue(k, "get_tasks", NoId) ELSE remote.tasks) :
            (IF Cached(k, "get_tasks", NoId)
             THEN CachedValue(k, "get_tasks", NoId) ELSE remote.tasks)[i].id = id})

\* where the task stands before the sort: the tasks due today come first when the
\* union of today and overdue was taken, and the fetched order decides otherwise
UnionRank(args, id) ==
    IF (args.filter_today \/ args.filter_overdue)
          /\ ParseDate(Lookup(remote.tasks, id).due[1].date) # Today
    THEN 1 ELSE 0

\* C10: the rows of list_tasks are in ascending order of (lower-cased project name,
\* lower-cased section name or empty, lower-cased content): the tasks of project "a"
\* come before those of project "B"; rows with equal keys are in the order they had
\* before the sort.
C10_RowsSortedStable ==
    [][(last'.op = "list_tasks" /\ last'.outcome = "ok") =>
          \A i, j \in 1..Len(last'.ret.rows) :
              i < j =>
                 /\ ~KeyLt(RowKey(RowIds(last'.ret)[j]), RowKey(RowIds(last'.ret)[i]))
                 /\ ~(/\ Lookup(remote.tasks, RowIds(last'.ret)[i]).project_id = 1
                      /\ Lookup(remote.tasks, RowIds(last'.ret)[j]).project_id = 2)
                 /\ RowKey(RowIds(last'.ret)[i]) = RowKey(RowIds(last'.ret)[j]) =>
                       \/ UnionRank(last'.args, RowIds(last'.ret)[i])
                            < UnionRank(last'.args, RowIds(last'.ret)[j])
                       \/ /\ UnionRank(last'.args, RowIds(last'.ret)[i])
                               = UnionRank(last'.args, RowIds(last'.ret)[j])
                          /\ FetchedPos(cache, RowIds(last'.ret)[i])
                               < FetchedPos(cache, RowIds(last'.ret)[j])]_vars

\* a task of project "a" is printed before a task of project "B" the service lists first
C10_Witness ==
    /\ Listed /\ Len(last.ret.rows) = 3
    /\ Lookup(remote.tasks, RowIds(last.ret)[1]).project_id = 2
    /\ RowIds(last.ret)[1] = 7
    /\ Lookup(remote.tasks, RowIds(last.ret)[2]).project_id = 1
    /\ RowKey(RowIds(last.ret)[2]) = RowKey(RowIds(last.ret)[3])

\* no task the service holds carries a section id
NoTaskInSection == \A t \in Range0(remote.tasks) : ~TruthyId(t.section_id)

\* C11: when list_tasks ran with no project and no section filter and no task carries a
\* section id, the output has no Section field: no "Section" column in the table and no
\* "section" field in any entry of the JSON document.
C11_SectionFieldAbsent ==
    (/\ Listed
     /\ last.args.project_name = None /\ last.args.section_name = None
     /\ NoTaskInSection) =>
        /\ last.ret.mode = "table" => "Section" \notin Range0(last.ret.columns)
        /\ \A i \in 1..Len(last.ret.rows) :
              DOMAIN last.ret.rows[i] \cap {"Section", "section"} = {}

(***************************************************************************)
(* Claims about the two output modes and the lookups (SpecRender).         *)
(***************************************************************************)
\* a table cell shows the value a JSON field carries: the text itself, or the 'not
\* available' marker where the field is null
Shows(cell, value) == IF value = None THEN cell = NA ELSE cell = value

\* the table and the JSON document list the same tasks in the same order with the same
\* content, project name, section name, parent content, priority and due string
SameRows(table, doc) ==
    /\ RowIds(table) = RowIds(doc)
    /\ \A i \in 1..Len(table.rows) :
          /\ table.rows[i]["Content"] = doc.rows[i].content
          /\ Shows(table.rows[i]["Project"], doc.rows[i].project)
          /\ table.rows[i]["Priority"] = Str(doc.rows[i].priority)
          /\ Shows(table.rows[i]["Due"], doc.rows[i].due)
          /\ IF "Section" \in DOMAIN table.rows[i]
             THEN Shows(table.rows[i]["Section"], doc.rows[i].section)
             ELSE doc.rows[i].section = None
          /\ IF "Parent Task" \in DOMAIN table.rows[i]
             THEN Shows(table.rows[i]["Parent Task"], doc.rows[i].parent)
             ELSE doc.rows[i].parent = None

\* the optional fields section and parent are in a row of the table exactly when they
\* are in the entry of the JSON document
SameOptionalFields(table, doc) ==
    \A i \in 1..Len(table.rows) :
        /\ "Section" \in DOMAIN table.rows[i] <=> "section" \in DOMAIN doc.rows[i]
        /\ "Parent Task" \in DOMAIN table.rows[i] <=> "parent" \in DOMAIN doc.rows[i]

\* list_tasks ran twice in a row with the same options but for the output mode, over the
\* same remote data
BothModes ==
    /\ Listed /\ last'.op = "list_tasks" /\ last'.outcome = "ok"
    /\ last.args.output_json # last'.args.output_json
    /\ [last.args EXCEPT !.output_json = last'.args.output_json] = last'.args
    /\ remote' = remote

\* the rows of the two modes agree (the part of C12 about the tasks and their values)
ModesSameRows ==
    [][BothModes =>
          SameRows(IF last.args.output_json THEN last'.ret ELSE last.ret,
                   IF last.args.output_json THEN last.ret ELSE last'.ret)]_vars

\* C12: for the same options and the same remote data, list_tasks in table mode and in
\* JSON mode emits the same tasks in the same order, with the same content, project
\* name, section name, parent content, priority and due string, and with the same set
\* of optional fields (section, parent).
C12_ModesAgree ==
    [][BothModes =>
          /\ SameRows(IF last.args.output_json THEN last'.ret ELSE last.ret,
                      IF last.args.output_json THEN last.ret ELSE last'.ret)
          /\ SameOptionalFields(IF last.args.output_json THEN last'.ret ELSE last.ret,
                                IF last.args.output_json THEN last.ret ELSE last'.ret)]_vars

\* the least position of a set of positions; 0: the set is empty
FirstOf(hits) == IF hits = {} THEN 0 ELSE Min(hits)

\* the section the section filter of l names: the first of the project's sections whose
\* name contains it; NoId: no filter
FilterSection(r, l) ==
    IF ~TruthyStr(l.args.section_name) THEN NoId
    ELSE RemoteSections(r, l.pid)[
            FirstOf({i \in 1..Len(RemoteSections(r, l.pid)) :
                        Contains(Lower(l.args.section_name),
                                 Lower(RemoteSections(r, l.pid)[i].name))})].id

\* the tasks of the service that remain after the filters of l: those of the project,
\* top-level ones unless subtasks are shown, those of the section
Remaining(r, l) ==
    SelectSeq(r.tasks, LAMBDA t :
        /\ l.pid # NoId => t.project_id = l.pid
        /\ ~l.args.show_subtasks => t.parent_id = NoId
        /\ TruthyStr(l.args.section_name) => t.section_id = FilterSection(r, l))

\* what the output shows for a name that was found, and for one that was not: the 'not
\* available' marker of the table, null in JSON
Rendered(l, found, name) ==
    IF found THEN (IF l.args.strip THEN remove_emojis(name) ELSE name)
    ELSE IF l.ret.mode = "json" THEN None ELSE NA

\* row i of the output is the row of task t
RowOf(r, l, i, t) ==
    /\ l.ret.rows[i][IF l.ret.mode = "json" THEN "project" ELSE "Project"] =
          Rendered(l, InDict(r.projects, t.project_id),
                   IF InDict(r.projects, t.project_id)
                   THEN Lookup(r.projects, t.project_id).name ELSE None)
    /\ TruthyId(t.section_id) =>
          (IF l.ret.mode = "json" THEN "section" ELSE "Section") \in DOMAIN l.ret.rows[i]
    /\ (IF l.ret.mode = "json" THEN "section" ELSE "Section") \in DOMAIN l.ret.rows[i] =>
          l.ret.rows[i][IF l.ret.mode = "json" THEN "section" ELSE "Section"] =
             Rendered(l, InDict(r.sections, t.section_id),
                      IF InDict(r.sections, t.section_id)
                      THEN Lookup(r.sections, t.section_id).name ELSE None)
    /\ l.args.show_subtasks =>
          l.ret.rows[i][IF l.ret.mode = "json" THEN "parent" ELSE "Parent Task"] =
             Rendered(l, InDict(Remaining(r, l), t.parent_id),
                      IF InDict(Remaining(r, l), t.parent_id)
                      THEN Lookup(Remaining(r, l), t.parent_id).content ELSE None)

\* C19: list_tasks completes and prints one row for every remaining task, also for a
\* task whose project is not in the project list, whose section is not in the section
\* lookup or whose parent is not in the task lookup: the field that is missing shows the
\* 'not available' marker (null in JSON), a field that is found shows its name, and the
\* rows are in ascending order of the keys, the missing component counting as empty.
C19_LookupMissRendered ==
    Listed =>
        /\ Len(last.ret.rows) = Len(Remaining(remote, last))
        /\ Range0(RowIds(last.ret)) = {t.id : t \in Range0(Remaining(remote, last))}
        /\ \A i \in 1..Len(last.ret.rows) :
              RowOf(remote, last, i, Lookup(remote.tasks, RowIds(last.ret)[i]))
        /\ \A i, j \in 1..Len(last.ret.rows) :
              i < j => ~KeyLt(RowKey(RowIds(last.ret)[j]), RowKey(RowIds(last.ret)[i]))

\* a table of two rows: task 5 of project 9, which the project list does not have, is
\* sorted first with its empty project key and shows the marker for its project; task 6,
\* whose parent 9 is not among the tasks, shows the marker for its parent
C19_Witness ==
    /\ Listed /\ last.ret.mode = "table" /\ last.args.show_subtasks
    /\ RowIds(last.ret) = <<5, 6>>
    /\ Lookup(remote.tasks, 5).project_id = 9
    /\ last.ret.rows[1]["Project"] = NA
    /\ Lookup(remote.tasks, 6).parent_id = 9
    /\ last.ret.rows[2]["Parent Task"] = NA
    /\ last.ret.rows[2]["Project"] = sA

(***************************************************************************)
(* Claims about the commands' errors and duplicates (Spec).                *)
(***************************************************************************)
\* C13: list_tasks and create_task given a section and no project end with a user error
\* and have made no remote call, fetch or mutation.
C13_SectionNeedsProject ==
    (/\ last.op \in {"list_tasks", "create_task"}
     /\ TruthyStr(last.args.section_name) /\ ~TruthyStr(last.args.project_name)) =>
        /\ last.outcome = "usererr"
        /\ last.log = << >>

\* the half of C13 about create_task
CreateTaskSectionNeedsProject ==
    (/\ last.op = "create_task"
     /\ TruthyStr(last.args.section_name) /\ ~TruthyStr(last.args.project_name)) =>
        /\ last.outcome = "usererr"
        /\ last.log = << >>

(***************************************************************************)
(* Claims about the create commands (SpecCreate).                          *)
(***************************************************************************)
\* how many calls of the operations ops the log holds
CallsOf(log, ops) == Cardinality({i \in 1..Len(log) : log[i].call.op \in ops})

\* how many tasks of the scope (project pid, or all) have exactly this content
TasksWith(r, pid, content) ==
    Cardinality({i \in 1..Len(r.tasks) :
                    /\ r.tasks[i].content = content
                    /\ pid = NoId \/ r.tasks[i].project_id = pid})

\* create_task succeeded and was called again with the same content, scope and force,
\* and no remote call of the second invocation failed
CreatedTwice ==
    /\ last.op = "create_task" /\ last.outcome = "ok"
    /\ last'.op = "create_task" /\ last'.args = last.args
    /\ last'.outcome \notin {"raise", "fail"}

\* C14: create_task called twice with the same content and scope.  Without force the
\* second call fetches the tasks of the scope again, finds the task the first call
\* created and ends as a no-op: add_task was invoked once and one task exists.  With
\* force both calls invoke add_task, neither fetches tasks, and two tasks exist.
C14_CreateTwice ==
    [][CreatedTwice =>
          IF ~last.args.force
          THEN /\ last'.outcome = "dup"
               /\ CallsOf(last.log, {"add_task"}) + CallsOf(last'.log, {"add_task"}) = 1
               /\ CallsOf(last'.log, {"get_tasks"}) = 1
               /\ remote' = remote
               /\ TasksWith(remote', last'.pid, last.args.content) = 1
          ELSE /\ last'.outcome = "ok"
               /\ CallsOf(last.log, {"add_task"}) = 1 /\ CallsOf(last'.log, {"add_task"}) = 1
               /\ CallsOf(last.log \o last'.log, {"get_tasks"}) = 0
               /\ Len(remote'.tasks) = Len(remote.tasks) + 1
               /\ TasksWith(remote', last'.pid, last.args.content) >= 2]_vars

\* the second create_task("b") in project "Ab" found task 5, which the first had
\* created, in the list it fetched anew, and added nothing
C14_Witness ==
    /\ last.op = "create_task" /\ last.outcome = "dup" /\ ~last.args.force
    /\ last.args.content = sB /\ last.pid = 1
    /\ CallsOf(last.log, {"get_tasks"}) = 1
    /\ remote.nextId = 6
    /\ \E i \in 1..Len(remote.tasks) : remote.tasks[i].id = 5 /\ remote.tasks[i].content = sB

(***************************************************************************)
(* Claims about the target of update, done and delete (SpecTarget).        *)
(***************************************************************************)
TaskTargetOps == {"update_task", "mark_task_done", "delete_task"}

TargetOps ==
    TaskTargetOps \cup {"update_project", "delete_project", "update_section",
                        "delete_section", "update_label", "delete_label"}

\* the remote operations these commands mutate with
TargetCalls ==
    {"update_task", "close_task", "delete_task", "update_project", "delete_project",
     "update_section", "delete_section", "update_label", "delete_label"}

\* the name or content the user gave for the target
TargetInput(l) ==
    CASE l.op \in TaskTargetOps -> l.args.content
      [] l.op \in {"update_project", "update_label"} -> l.args.name
      [] l.op \in {"delete_project", "delete_label"} -> l.args.name_partial
      [] l.op = "update_section" -> l.args.section_name
      [] l.op = "delete_section" -> l.args.section_partial

\* the entities of the resolved scope as command l finds them with cache k and service
\* r, in order: <<id, name or content>>
ScopeOf(k, r, l) ==
    CASE l.op \in TaskTargetOps \cup {"create_task"} ->
           [i \in 1..Len(IF Cached(k, "get_tasks", l.pid)
                         THEN CachedValue(k, "get_tasks", l.pid) ELSE RemoteTasks(r, l.pid)) |->
               <<(IF Cached(k, "get_tasks", l.pid)
                  THEN CachedValue(k, "get_tasks", l.pid) ELSE RemoteTasks(r, l.pid))[i].id,
                 (IF Cached(k, "get_tasks", l.pid)
                  THEN CachedValue(k, "get_tasks", l.pid) ELSE RemoteTasks(r, l.pid))[i].content>>]
      [] l.op \in {"create_project", "update_project", "delete_project"} ->
           [i \in 1..Len(IF Cached(k, "get_projects", NoId)
                         THEN CachedValue(k, "get_projects", NoId) ELSE r.projects) |->
               <<(IF Cached(k, "get_projects", NoId)
                  THEN CachedValue(k, "get_projects", NoId) ELSE r.projects)[i].id,
                 (IF Cached(k, "get_projects", NoId)
                  THEN CachedValue(k, "get_projects", NoId) ELSE r.projects)[i].name>>]
      [] l.op \in {"create_section", "update_section", "delete_section"} ->
           [i \in 1..Len(IF Cached(k, "get_sections", l.pid)
                         THEN CachedValue(k, "get_sections", l.pid)
                         ELSE RemoteSections(r, l.pid)) |->
               <<(IF Cached(k, "get_sections", l.pid)
                  THEN CachedValue(k, "get_sections", l.pid)
                  ELSE RemoteSections(r, l.pid))[i].id,
                 (IF Cached(k, "get_sections", l.pid)
                  THEN CachedValue(k, "get_sections", l.pid)
                  ELSE RemoteSections(r, l.pid))[i].name>>]
      [] l.op \in {"create_label", "update_label", "delete_label"} ->
           [i \in 1..Len(r.labels) |-> <<r.labels[i].id, r.labels[i].name>>]

\* the first entity whose name equals the input, case and surrounding whitespace aside
FirstEqual(scope, input) ==
    FirstOf({i \in 1..Len(scope) : Lower(Strip(scope[i][2])) = Lower(Strip(input))})

\* the first entity whose name contains the input, case aside
FirstContaining(scope, input) ==
    FirstOf({i \in 1..Len(scope) : Contains(Lower(input), Lower(scope[i][2]))})

\* the entity whose id is written as the input, when the input is a number
FirstWithId(scope, input) ==
    FirstOf({i \in 1..Len(scope) : IsDigit(input) /\ Str(scope[i][1]) = input})

\* the target the delete commands of projects, sections and labels take, and the one
\* the other commands take
TargetByCommand(op, scope, input) ==
    CASE op = "delete_project" ->
           IF FirstWithId(scope, input) # 0 THEN FirstWithId(scope, input)
           ELSE FirstContaining(scope, input)
      [] op \in {"delete_section", "delete_label"} -> FirstContaining(scope, input)
      [] OTHER -> FirstEqual(scope, input)

\* command l ran on the entity at position hit of scope, or found none when hit is 0
ActedOn(l, scope, hit) ==
    /\ \A i \in 1..Len(l.log) :
          l.log[i].call.op \in TargetCalls => (hit # 0 /\ l.log[i].call.id = scope[hit][1])
    /\ l.outcome = "ok" =>
          \E i \in 1..Len(l.log) : l.log[i].call.op \in TargetCalls /\ ~l.log[i].raised
    /\ l.outcome = "notfound" <=> (hit = 0 /\ \A i \in 1..Len(l.log) : ~l.log[i].raised)

\* the command ran as far as looking for its target
LookedForTarget(l) == l.op \in TargetOps /\ l.outcome \in {"ok", "notfound", "fail"}

\* C15 as the specification states it: every update, done and delete command takes the
\* first entity of the resolved scope whose name or content equals the input ignoring
\* case and surrounding whitespace, never one that only contains it; with no such
\* entity the outcome is 'not found' and no remote mutation is invoked.
C15_ExactTarget ==
    [][LookedForTarget(last') =>
          ActedOn(last', ScopeOf(cache, remote, last'),
                  FirstEqual(ScopeOf(cache, remote, last'), TargetInput(last')))]_vars

\* C15 as the code has it: the update and done commands and delete_task take the first
\* entity whose name or content equals the input ignoring case and surrounding
\* whitespace; delete_project takes the project whose id is the input, else the first
\* whose name contains it ignoring case; delete_section and delete_label take the first
\* whose name contains it ignoring case; with no such entity the outcome is 'not found'
\* and no remote mutation is invoked.
C15_TargetByCommand ==
    [][LookedForTarget(last') =>
          ActedOn(last', ScopeOf(cache, remote, last'),
                  TargetByCommand(last'.op, ScopeOf(cache, remote, last'),
                                  TargetInput(last')))]_vars

\* update_task("B ") renamed task 7, "b", and left task 6, "Ab", which contains the
\* input and comes first
C15_Witness ==
    /\ last.op = "update_task" /\ last.outcome = "ok" /\ last.args.content = sUpBsp
    /\ \E i \in 1..Len(last.log) :
          last.log[i].call.op = "update_task" /\ last.log[i].call.id = 7
    /\ \E i \in 1..Len(remote.tasks) : remote.tasks[i].id = 6 /\ remote.tasks[i].content = sAb
    /\ \E i \in 1..Len(remote.tasks) : remote.tasks[i].id = 7 /\ remote.tasks[i].content = sP

(***************************************************************************)
(* Claims about commands that find nothing (Spec).                         *)
(***************************************************************************)
\* every remote operation that changes the service
AllMutations ==
    MutationOps \cup {"add_reminder", "add_label", "update_label", "delete_label"}

\* every slot of cache k is a slot of cache k2, with the list it had
SlotsKept(k, k2) ==
    /\ k.projects # None => k2.projects = k.projects
    /\ \A p \in DOMAIN k.sections : p \in DOMAIN k2.sections /\ k2.sections[p] = k.sections[p]
    /\ \A p \in DOMAIN k.tasks : p \in DOMAIN k2.tasks /\ k2.tasks[p] = k.tasks[p]

\* C16: a command that ends because a project or section name resolved to nothing, or
\* because the target of an update, done or delete was not found, has invoked no remote
\* mutation and has emptied no cache slot.
C16_NotFoundNoSideEffect ==
    [][last'.outcome \in {"usererr", "notfound"} =>
          /\ CallsOf(last'.log, AllMutations) = 0
          /\ remote' = remote
          /\ SlotsKept(cache, cache')]_vars

\* delete_task("b") found no such task in the cached list of all tasks, and the slot is
\* still there
C16_Witness ==
    /\ last.op = "delete_task" /\ last.outcome = "notfound"
    /\ last.args.content = sB /\ last.args.project_name = None
    /\ last.log = << >>
    /\ ALL \in DOMAIN cache.tasks

(***************************************************************************)
(* Claims about the reminder of create_task (SpecCreate).                  *)
(***************************************************************************)
\* the position of the add_reminder call in the log; 0: the reminder step was not reached
ReminderAt(log) == FirstOf({i \in 1..Len(log) : log[i].call.op = "add_reminder"})

\* C17: when create_task reached its reminder step (add_task returned), the command
\* ends as a success whether add_reminder raised or not: the new task is still on the
\* service and nothing was deleted, the task slots of the scope and of 'all' are empty
\* as after any create, and every other slot is as it was.
C17_ReminderNotFatal ==
    [][(last'.op = "create_task" /\ ReminderAt(last'.log) # 0) =>
          /\ last'.outcome = "ok"
          /\ \E i \in 1..(ReminderAt(last'.log) - 1) :
                /\ last'.log[i].call.op = "add_task" /\ ~last'.log[i].raised
          /\ \E j \in 1..Len(remote'.tasks) :
                /\ remote'.tasks[j].id = last'.log[ReminderAt(last'.log)].call.id
                /\ remote'.tasks[j].content = last'.args.content
          /\ Len(remote'.tasks) = Len(remote.tasks) + 1
          /\ DOMAIN cache'.tasks = DOMAIN cache.tasks \ {TaskKey(last'.pid), ALL}
          /\ \A p \in DOMAIN cache'.tasks : cache'.tasks[p] = cache.tasks[p]
          /\ cache.projects # None => cache'.projects = cache.projects
          /\ \A p \in DOMAIN cache.sections :
                p \in DOMAIN cache'.sections /\ cache'.sections[p] = cache.sections[p]]_vars

\* create_task("b", reminder "r") in project 2: add_task returned task 5, add_reminder
\* raised; the command succeeded, the task is there and the task slots are empty
C17_Witness ==
    /\ last.op = "create_task" /\ last.outcome = "ok" /\ last.args.reminder = sR
    /\ last.args.content = sB /\ last.pid = 2
    /\ ReminderAt(last.log) = Len(last.log)
    /\ last.log[Len(last.log)].raised
    /\ \E j \in 1..Len(remote.tasks) : remote.tasks[j].id = 5 /\ remote.tasks[j].content = sB
    /\ DOMAIN cache.tasks = {}

(***************************************************************************)
(* Claims about the slots project and section mutations leave (Spec).      *)
(***************************************************************************)
ProjectMutators == {"create_project", "update_project", "delete_project"}

SectionMutators == {"create_section", "update_section", "delete_section"}

\* the slot of the entity kind the command mutated is empty: the projects slot, or the
\* sections slot of the project the section is in
OwnSlotEmptied ==
    [][(last'.op \in ProjectMutators \cup SectionMutators /\ last'.outcome = "ok") =>
          /\ last'.op \in ProjectMutators => cache'.projects = None
          /\ last'.op \in SectionMutators => last'.pid \notin DOMAIN cache'.sections]_vars

\* C18: after a successful create, update or delete of a project the projects slot is
\* empty, after a successful create, update or delete of a section of project P the
\* sections slot of P is empty, and no sections slot or tasks slot (of a project, or
\* 'all') is left populated when the lists of the service it stands for changed
\* because the project or section was deleted.
C18_StaleSlotsEmptied ==
    [][(last'.op \in ProjectMutators \cup SectionMutators /\ last'.outcome = "ok") =>
          /\ last'.op \in ProjectMutators => cache'.projects = None
          /\ last'.op \in SectionMutators => last'.pid \notin DOMAIN cache'.sections
          /\ \A p \in DOMAIN cache'.sections :
                RemoteSections(remote', p) = RemoteSections(remote, p)
          /\ \A p \in 0..MaxId :
                TaskKey(p) \in DOMAIN cache'.tasks =>
                   RemoteTasks(remote', p) = RemoteTasks(remote, p)]_vars

(***************************************************************************)
(* Claims about the duplicate check of the create commands (SpecCreate).   *)
(***************************************************************************)
AddCalls == {"add_task", "add_project", "add_section", "add_label"}

\* the name or content the user gave for the new entity
CreateInput(l) ==
    CASE l.op = "create_task" -> l.args.content
      [] l.op \in {"create_project", "create_label"} -> l.args.name
      [] l.op = "create_section" -> l.args.section_name

\* a create command that checks for duplicates went as far as its check: it skipped the
\* mutation as a duplicate, or invoked it
CheckedDuplicates(l) ==
    /\ l.op \in {"create_task", "create_project", "create_section", "create_label"}
    /\ l.op = "create_task" => ~l.args.force
    /\ l.outcome = "dup" \/ CallsOf(l.log, AddCalls) > 0

\* the mutation is skipped exactly when an entity of the scope has the new name but for
\* case and surrounding whitespace
SkippedIffEqual(k, r, l) ==
    (l.outcome = "dup" /\ CallsOf(l.log, AddCalls) = 0)
        <=> FirstEqual(ScopeOf(k, r, l), CreateInput(l)) # 0

\* the part of C20 about projects, sections and labels
NamesSkippedIffEqual ==
    [][(CheckedDuplicates(last') /\ last'.op # "create_task") =>
          SkippedIffEqual(cache, remote, last')]_vars

\* C20: a create command (task without force, project, section, label) skips the remote
\* mutation if and only if an entity of the checked scope has a name or content equal to
\* the new one after trimming surrounding whitespace and ignoring case; names that
\* differ in any other character, as "a1" and "a2" do, are never taken for duplicates.
C20_DuplicateIffEqual ==
    [][CheckedDuplicates(last') => SkippedIffEqual(cache, remote, last')]_vars

(***************************************************************************)
(* Claims about the temporal filters (SpecList).                           *)
(***************************************************************************)
\* the task is due after the current date
DueLater(t) ==
    t.due # None /\ t.due[1].date # None /\ DateLt(Today, ParseDate(t.due[1].date))

\* C21: when list_tasks ran with at least one of the filters today, overdue and
\* recurring (recurring alone included), no row is of a task without a due; a row of a
\* task due after the current date is printed only when neither today nor overdue was
\* requested.
C21_NoDueExcluded ==
    Listed =>
        \A id \in Range0(RowIds(last.ret)) :
            /\ (last.args.filter_today \/ last.args.filter_overdue
                   \/ last.args.filter_recurring) =>
                  Lookup(remote.tasks, id).due # None
            /\ DueLater(Lookup(remote.tasks, id)) =>
                  ~(last.args.filter_today \/ last.args.filter_overdue)

\* recurring alone, over a task without a due, a task due tomorrow and a recurring task
\* due today: only the third is printed
C21_Witness ==
    /\ Listed /\ last.args.filter_recurring
    /\ ~last.args.filter_today /\ ~last.args.filter_overdue
    /\ Len(remote.tasks) = 3
    /\ remote.tasks[1].due = None
    /\ DueLater(remote.tasks[2])
    /\ RowIds(last.ret) = <<remote.tasks[3].id>>

(***************************************************************************)
(* Claims about the section, subtask and parent steps of list_tasks        *)
(* (SpecScope).                                                            *)
(***************************************************************************)
\* the tasks of the scope of l that remain after its subtask filter
AfterSubtaskFilter(r, l) ==
    {t \in Range0(RemoteTasks(r, l.pid)) : l.args.show_subtasks \/ t.parent_id = NoId}

\* the projects of those of them that carry a section id
SectionPids(r, l) ==
    {t.project_id : t \in {u \in AfterSubtaskFilter(r, l) : u.section_id # NoId}}

\* the fetches of sections in a log
SectionFetches(log) == {i \in 1..Len(log) : log[i].call.op = "get_sections"}

\* C22: with no section filter, the table of list_tasks has the Section column if and
\* only if a task remaining after the subtask filter has a section id, and sections are
\* requested once for each distinct project of the tasks that carry a section id and
\* for no other project (a project whose sections are not cached is fetched once and
\* cached, a cached one is not fetched); with a section filter the table always has
\* the Section column and every row is of a task whose section id is the resolved one.
C22_SectionColumn ==
    [][(last'.op = "list_tasks" /\ last'.outcome = "ok") =>
          IF ~TruthyStr(last'.args.section_name)
          THEN /\ last'.ret.mode = "table" =>
                     ("Section" \in Range0(last'.ret.columns)
                         <=> SectionPids(remote, last') # {})
               /\ {last'.log[i].call.project_id : i \in SectionFetches(last'.log)}
                     = SectionPids(remote, last') \ DOMAIN cache.sections
               /\ \A i, j \in SectionFetches(last'.log) :
                     last'.log[i].call.project_id = last'.log[j].call.project_id => i = j
               /\ DOMAIN cache'.sections = DOMAIN cache.sections \cup SectionPids(remote, last')
          ELSE /\ last'.ret.mode = "table" => "Section" \in Range0(last'.ret.columns)
               /\ \A id \in Range0(RowIds(last'.ret)) :
                     Lookup(remote.tasks, id).section_id = FilterSection(remote, last')
               /\ ~(last'.args.filter_today \/ last'.args.filter_recurring) =>
                     Range0(RowIds(last'.ret)) =
                        {t.id : t \in {u \in AfterSubtaskFilter(remote, last') :
                                          u.section_id = FilterSection(remote, last')}}]_vars

\* the first listing of a session, with no filter, over a task in section 3 of project 1
\* and a task in section 4 of project 2: the table has the Section column and the
\* sections of project 1 and of project 2 were fetched, once each
C22_Witness ==
    /\ Listed /\ steps = 1 /\ last.ret.mode = "table"
    /\ last.args.project_name = None /\ last.args.section_name = None
    /\ "Section" \in Range0(last.ret.columns)
    /\ {t.project_id : t \in Range0(remote.tasks)} = {1, 2}
    /\ [i \in 1..Len(last.log) |-> <<last.log[i].call.op, last.log[i].call.project_id>>]
          = <<<<"get_tasks", NoId>>, <<"get_sections", 1>>, <<"get_sections", 2>>,
              <<"get_projects", NoId>>>>

\* the task passes the section filter and the temporal filters of l
PassesFilters(r, l, t) ==
    /\ TruthyStr(l.args.section_name) => t.section_id = FilterSection(r, l)
    /\ (l.args.filter_today \/ l.args.filter_overdue) =>
          /\ t.due # None /\ t.due[1].date # None
          /\ \/ l.args.filter_today /\ ParseDate(t.due[1].date) = Today
             \/ l.args.filter_overdue /\ DateLt(ParseDate(t.due[1].date), Today)
    /\ l.args.filter_recurring => (t.due # None /\ t.due[1].is_recurring)

\* C23: when list_tasks ran without include-subtasks, no row is of a task whose parent
\* id is set, whatever project, section and temporal filters were requested; when it
\* ran with include-subtasks, every task of the scope with a parent id that passes the
\* other filters has a row.
C23_SubtasksDropped ==
    Listed =>
        /\ ~last.args.show_subtasks =>
              \A id \in Range0(RowIds(last.ret)) : Lookup(remote.tasks, id).parent_id = NoId
        /\ last.args.show_subtasks =>
              \A t \in Range0(RemoteTasks(remote, last.pid)) :
                  (t.parent_id # NoId /\ PassesFilters(remote, last, t)) =>
                      t.id \in Range0(RowIds(last.ret))

\* today's tasks listed without include-subtasks, over task 5 and its subtask 6, both
\* due today: only task 5 is printed
C23_Witness ==
    /\ Listed /\ ~last.args.show_subtasks /\ last.args.filter_today
    /\ Len(remote.tasks) = 2
    /\ remote.tasks[2].parent_id = 5
    /\ remote.tasks[2].due = Due(dToday, FALSE)
    /\ RowIds(last.ret) = <<5>>

\* C24: when list_tasks ran with include-subtasks, the parent shown in a row is the
\* content of the task with the row's parent id among the tasks fetched for the scope,
\* and the 'not available' marker (null in JSON) only when the row has no parent or its
\* parent is not among those tasks, also when the section or temporal filters removed
\* the parent from the rows.
C24_ParentFromPopulation ==
    (Listed /\ last.args.show_subtasks) =>
        \A i \in 1..Len(last.ret.rows) :
            last.ret.rows[i][IF last.ret.mode = "json" THEN "parent" ELSE "Parent Task"] =
               Rendered(last,
                        InDict(RemoteTasks(remote, last.pid),
                               Lookup(remote.tasks, RowIds(last.ret)[i]).parent_id),
                        IF InDict(RemoteTasks(remote, last.pid),
                                  Lookup(remote.tasks, RowIds(last.ret)[i]).parent_id)
                        THEN Lookup(RemoteTasks(remote, last.pid),
                                    Lookup(remote.tasks, RowIds(last.ret)[i]).parent_id).content
                        ELSE None)

(***************************************************************************)
(* Claims about the invalidations (SpecInval).                             *)
(***************************************************************************)
\* d2 is d without the keys gone, every other key with its list as it was
Removed(d, d2, gone) ==
    /\ DOMAIN d2 = (DOMAIN d) \ gone
    /\ \A k \in DOMAIN d2 : d2[k] = d[k]

\* C25: invalidate_tasks(P) removes exactly the task slots P and "all" and leaves every
\* other task slot, the section slots and the projects slot as they were;
\* invalidate_sections(P) removes only the sections slot of P; invalidate_projects
\* empties only the projects slot; each of them returns normally and makes no remote
\* call, also when the slot was not filled, and the cache is then as it was.
C25_InvalidateFrame ==
    [][/\ last'.op = "invalidate_tasks" =>
             /\ last'.outcome = "ok" /\ last'.log = << >>
             /\ Removed(cache.tasks, cache'.tasks,
                        {ALL} \cup (IF last'.args.project_id # NoId
                                    THEN {Str(last'.args.project_id)} ELSE {}))
             /\ cache'.sections = cache.sections /\ cache'.projects = cache.projects
       /\ last'.op = "invalidate_sections" =>
             /\ last'.outcome = "ok" /\ last'.log = << >>
             /\ Removed(cache.sections, cache'.sections, {last'.args.project_id})
             /\ cache'.tasks = cache.tasks /\ cache'.projects = cache.projects
             /\ last'.args.project_id \notin DOMAIN cache.sections => cache' = cache
       /\ last'.op = "invalidate_projects" =>
             /\ last'.outcome = "ok" /\ last'.log = << >>
             /\ cache' = [cache EXCEPT !.projects = None]
             /\ cache.projects = None => cache' = cache]_vars

\* invalidate_tasks(1) on a cache with every slot filled: the task slot of project 2,
\* both section slots and the projects slot are left
C25_Witness ==
    /\ last.op = "invalidate_tasks" /\ last.args.project_id = 1 /\ steps = 1
    /\ DOMAIN cache.tasks = {Str(2)}
    /\ cache.tasks[Str(2)] = RemoteTasks(remote, 2)
    /\ DOMAIN cache.sections = {1, 2}
    /\ cache.projects # None

(***************************************************************************)
(* Claims about remote calls that raise and about the calls a command      *)
(* makes (Spec).                                                           *)
(***************************************************************************)
\* the positions of the remote calls of a log that raised, the reminder's aside
RaisedAt(log) ==
    {i \in 1..Len(log) : log[i].raised /\ log[i].call.op # "add_reminder"}

\* C26: when a remote call of an invocation other than add_reminder raised (a fetch for
\* a resolution, for the duplicate check or for the listing, or the mutation), it was
\* the last call of the invocation and the invocation ended as a failure: not as a
\* success, a duplicate or a not-found outcome.
C26_RaiseIsFailure ==
    RaisedAt(last.log) # {} =>
        /\ last.outcome \in {"fail", "raise"}
        /\ RaisedAt(last.log) = {Len(last.log)}

\* create_project whose add_project raised after the projects were fetched
C26_Witness ==
    /\ last.op = "create_project" /\ last.outcome = "fail"
    /\ Len(last.log) = 2
    /\ last.log[1].call.op = "get_projects" /\ ~last.log[1].raised
    /\ last.log[2].call.op = "add_project" /\ last.log[2].raised
    /\ remote = InitRemote

(***************************************************************************)
(* Claims about the course of an invocation (SpecRun).                     *)
(***************************************************************************)
Terminal == {"ok", "dup", "notfound", "usererr", "fail", "raise"}

\* C27: provided every remote call eventually returns or raises, every invocation of a
\* command eventually reaches a terminal outcome (success, duplicate, not found, user
\* error or failure), and keeps that one outcome; an invocation whose mutation is in
\* flight ends only with that call returned or raised (the call is in the log of the
\* invocation that ended, at its position).
C27_Terminates ==
    /\ (last.outcome = "running") ~> (last.outcome \in Terminal)
    /\ [][(steps' = steps /\ last.outcome \in Terminal) => last' = last]_vars
    /\ [][(/\ pend # Idle /\ pend[1].call.op \in MutationOps
           /\ (pend' = Idle \/ last'.outcome # "running")) =>
             /\ last'.outcome \in Terminal
             /\ Len(last'.log) > pend[1].done
             /\ last'.log[pend[1].done + 1].call = pend[1].call]_vars

\* mark_task_done ended as a success after its fetch and its close_task had been in
\* flight
C27_Witness ==
    /\ last.op = "mark_task_done" /\ last.outcome = "ok" /\ pend = Idle
    /\ Len(last.log) = 2
    /\ last.log[2].call.op = "close_task" /\ ~last.log[2].raised

\* the add_task calls of a log
AddTaskCalls(log) == {log[i].call : i \in {j \in 1..Len(log) : log[j].call.op = "add_task"}}

\* C28: every add_task call of create_task that carries a section id carries a project
\* id too, and the section id is that of one of the sections the cache holds for that
\* project, a section of that project: never a section of another project, never a
\* section without a project.
C28_SectionOfProject ==
    last.op = "create_task" =>
        \A call \in AddTaskCalls(last.log) :
            call.section_id # NoId =>
                /\ call.project_id # NoId
                /\ call.project_id = last.pid
                /\ call.project_id \in DOMAIN cache.sections
                /\ \E s \in Range0(cache.sections[call.project_id]) :
                      s.id = call.section_id /\ s.project_id = call.project_id
                /\ \E s \in Range0(remote.sections) :
                      s.id = call.section_id /\ s.project_id = call.project_id

\* create_task with project "b" and section "s": the task is added to section 3 of
\* project 1
C28_Witness ==
    /\ last.op = "create_task" /\ last.outcome = "ok"
    /\ last.args.project_name = sB /\ last.args.section_name = sS
    /\ \E call \in AddTaskCalls(last.log) : call.project_id = 1 /\ call.section_id = 3
    /\ \E t \in Range0(remote.tasks) : t.id = 6 /\ t.project_id = 1 /\ t.section_id = 3

(***************************************************************************)
(* Claims about the cache under the listing commands (SpecScope).          *)
(***************************************************************************)
ListingOps == {"list_tasks", "list_projects", "list_sections"}

\* C29: list_tasks, list_projects and list_sections leave every populated cache slot
\* with the elements it had, in the order they had, so that a name resolution after the
\* listing goes over the same order as one before it and picks the same first match.
C29_ListingKeepsSlots ==
    [][last'.op \in ListingOps => SlotsKept(cache, cache')]_vars

\* the remote operations that are the primary mutation of a command, the labels' included
PrimaryOps == AllMutations \ {"add_reminder"}

\* the positions of the calls of a log whose operation is in ops
CallsAt(log, ops) == {i \in 1..Len(log) : log[i].call.op \in ops}

\* the tasks of the scope other than the one at position hit whose content equals the
\* input, case and surrounding whitespace aside
OtherMatches(scope, hit, input) ==
    {scope[j][1] : j \in {i \in 1..Len(scope) :
                             i # hit /\ Lower(Strip(scope[i][2])) = Lower(Strip(input))}}

\* C30: an invocation makes at most one primary mutation call (add, update, close or
\* delete) and at most one add_reminder call, which comes right after an add_task that
\* returned; mark_task_done and delete_task call the service for the first task of the
\* scope whose content matches and for no other, and the other tasks with the same
\* content that were on the service are still on it afterwards.
C30_OneMutation ==
    [][/\ Cardinality(CallsAt(last'.log, PrimaryOps)) <= 1
       /\ Cardinality(CallsAt(last'.log, {"add_reminder"})) <= 1
       /\ \A i \in CallsAt(last'.log, {"add_reminder"}) :
             /\ i > 1
             /\ last'.log[i - 1].call.op = "add_task" /\ ~last'.log[i - 1].raised
       /\ last'.op \in {"mark_task_done", "delete_task"} =>
             \A i \in CallsAt(last'.log, {"close_task", "delete_task"}) :
                 /\ FirstEqual(ScopeOf(cache, remote, last'), last'.args.content) # 0
                 /\ last'.log[i].call.id =
                       ScopeOf(cache, remote, last')[
                           FirstEqual(ScopeOf(cache, remote, last'), last'.args.content)][1]
                 /\ OtherMatches(ScopeOf(cache, remote, last'),
                                 FirstEqual(ScopeOf(cache, remote, last'), last'.args.content),
                                 last'.args.content) \cap {t.id : t \in Range0(remote.tasks)}
                       \subseteq {t.id : t \in Range0(remote'.tasks)}]_vars

\* delete_task("a") with no project, over task 4 "A " and task 5 "a": task 4 is deleted,
\* task 5 is left
C30_Witness ==
    /\ last.op = "delete_task" /\ last.outcome = "ok" /\ steps = 1
    /\ last.args.content = sA /\ last.args.project_name = None
    /\ [i \in 1..Len(last.log) |-> <<last.log[i].call.op, last.log[i].call.id>>]
          = <<<<"get_tasks", NoId>>, <<"delete_task", 4>>>>
    /\ [i \in 1..Len(remote.tasks) |-> remote.tasks[i].id] = <<5>>

(***************************************************************************)
(* C31: what update_task does is independent of section_name and reminder. *)
(***************************************************************************)
\* C31: a run of update_task with any section_name and reminder and the run from the
\* same cache and the same service with neither end the same way, make the same calls
\* of the service with the same arguments (the same task selected, the same fields
\* sent), and leave the same cache and the same service; so do any two runs that differ
\* in section_name and reminder only.
C31_SectionReminderIgnored ==
    (last.op = "update_task" /\ pend # Idle) =>
        /\ pend[1].outcome = last.outcome
        /\ pend[1].log = last.log
        /\ pend[1].cache = cache
        /\ pend[1].remote = remote

\* update_task("b", new_content "p") with section "s" and reminder "r" next to the run
\* with neither: task 7 is updated and the slot of all tasks is dropped in both
C31_Witness ==
    /\ last.op = "update_task" /\ last.outcome = "ok" /\ pend # Idle
    /\ last.args.content = sB /\ last.args.project_name = None
    /\ last.args.section_name = sS /\ last.args.reminder = sR
    /\ pend[1].section_name = None /\ pend[1].reminder = None
    /\ \E i \in 1..Len(last.log) :
          /\ last.log[i].call.op = "update_task" /\ last.log[i].call.id = 7
          /\ last.log[i].call.content = sP
    /\ ALL \notin DOMAIN cache.tasks

====
